---- MODULE Spec2Model ----
(***************************************************************************)
(* AlmostMake: the staleness resolver (MakeUtil.prepareGenerateTarget),    *)
(* the build scheduler (MakeUtil.satisfyDependencies) and the entry point  *)
(* (MakeUtil.runMakefile) of src/almost_make/utils/makeUtil.py, with the   *)
(* error sink of src/almost_make/utils/errorUtil.py.                       *)
(*                                                                         *)
(* Text is modelled as a sequence of tokens: a recipe line "@cc $(<)" is   *)
(* <<"@", "cc", "$(<)">>.  A file is its modification time, 0 when the     *)
(* file does not exist.  A path is the name it resolves to (no VPATH).     *)
(***************************************************************************)
EXTENDS Integers, Sequences, FiniteSets, TLC

\* ------------------------------------------------------------------ bounds
MaxTime == 2        \* initial modification times are 1..MaxTime, 0 = missing
MaxBudget == 3      \* maxJobs ranges over 1..MaxBudget
MaxThreads == 4     \* worker-thread objects that can be created in one run
MaxDepth == 6       \* frames on one thread's call stack (recursion limit)
MaxExpand == 3      \* nested calls of expandMacroUsages (recursion limit)
MaxLines == 3       \* lines of a file of definitions
MaxArms == 3        \* conditions in one if / else-if chain
MaxRules == 3       \* pattern rules in one rule database
MaxWords == 2       \* tokens between the blanks of a function's text argument
MaxChars == 4       \* characters of a line given to stripComments
MaxDefs == 2        \* definitions below the recipe of a rule file

\* ------------------------------------------------------------- vocabulary
Names == {"a", "b", "c", "d"}
PhonyKey == ".PHONY"
MAGIC_TARGETS == {".POSIX", ".SUFFIXES"}
Main == 0
Workers == 1..MaxThreads
Threads == {Main} \cup Workers

Range(s) == {s[x] : x \in DOMAIN s}

Max(a, b) == IF a < b THEN b ELSE a

Front(s) == SubSeq(s, 1, Len(s) - 1)
Last(s) == s[Len(s)]

\* ------------------------------------------------------------ file system
\* os.path.exists through findFile: the current directory only (no VPATH).
Exists(t, fs) == t \in DOMAIN fs /\ fs[t] > 0

\* findFile answers the relative path, which without VPATH is the name.
FindFile(t, fs) == IF Exists(t, fs) THEN <<t>> ELSE <<>>

GetMTime(t, fs) == fs[t]

\* The newest modification time on disk: what a file written now is newer than.
RECURSIVE NewestOf(_, _)
NewestOf(S, fs) ==
    IF S = {} THEN 0
    ELSE LET x == CHOOSE y \in S : TRUE
         IN  Max(fs[x], NewestOf(S \ {x}, fs))

Now(fs) == NewestOf(DOMAIN fs, fs) + 1

\* ---------------------------------------------------------- rule database
\* isPhony: the .PHONY entry's prerequisite list, or a magic target.
IsPhony(t, db) ==
    /\ PhonyKey \in DOMAIN db
    /\ (t \in Range(db[PhonyKey].deps) \/ t \in MAGIC_TARGETS)

\* The characters of a name, in pieces: the piece "%" is the wildcard of a
\* pattern, and no other piece holds one.
Spell(name) ==
    CASE name = "a.o" -> <<"a", ".o">>
      [] name = "a.c" -> <<"a", ".c">>
      [] name = "a.s" -> <<"a", ".s">>
      [] name = "a.h" -> <<"a", ".h">>
      [] name = "x.h" -> <<"x", ".h">>
      [] name = "%.o" -> <<"%", ".o">>
      [] name = "%.x" -> <<"%", ".x">>
      [] name = "%.c" -> <<"%", ".c">>
      [] name = "%.s" -> <<"%", ".s">>
      [] name = "%.h" -> <<"%", ".h">>
      [] name = "a%.o" -> <<"a", "%", ".o">>
      [] name = "a%a.o" -> <<"a", "%", "a", ".o">>
      [] name = ".c" -> <<".c">>
      [] name = "x" -> <<"x">>
      [] name = "y" -> <<"y">>
      [] name = PhonyKey -> <<".", "PHONY">>

Spelled ==
    {"a.o", "a.c", "a.s", "a.h", "x.h", "%.o", "%.x", "%.c", "%.s", "%.h",
     ".c"}

\* The name with the given characters.
Unspell(pieces) == CHOOSE name \in Spelled : Spell(name) = pieces

\* The lines of pattern rules, which are their keys in the database.
PatternLines ==
    {"%.o: %.c", "%.o: %.s", "%.o: %.c %.h", "%.o: %.s %.h", "%.o: %.c x.h",
     "%.x: %.c", "%.x: %.s", "%.x: %.c %.h", "%.x: %.s %.h", "%.x: %.c x.h"}

\* More lines of pattern rules: a pattern with text on both sides of the
\* wildcard, and lines that name a.o itself next to a pattern.
MatchLines ==
    {"a%.o: %.c", "a%a.o: %.c", "a.o %.x: %.c", "%.x a.o: %.c"}

\* isPatternSubstRecipe, lines 258-264, on a key.
IsPatternSubstRecipe(key) == key \in PatternLines \cup MatchLines

\* str.startswith and str.endswith, on characters.
StartsWithAll(word, prefix) ==
    Len(prefix) <= Len(word) /\ SubSeq(word, 1, Len(prefix)) = prefix

EndsWithAll(word, suffix) ==
    /\ Len(suffix) <= Len(word)
    /\ SubSeq(word, Len(word) - Len(suffix) + 1, Len(word)) = suffix

\* str.index: the position of the first wildcard, counted from 1.
IndexOf(word, c) ==
    CHOOSE i \in DOMAIN word : word[i] = c /\ \A j \in 1..(i - 1) : word[j] # c

\* Lines 374-377: the matched part of the target takes the place of every
\* wildcard of a prerequisite.
RECURSIVE Substitute(_, _)
Substitute(word, stem) ==
    IF word = <<>> THEN <<>>
    ELSE (IF Head(word) = "%" THEN stem ELSE <<Head(word)>>)
         \o Substitute(Tail(word), stem)

\* Lines 366-381: what one name to the left of the colon of a pattern rule
\* contributes for the target: nothing when it holds no wildcard or does
\* not match, or the rule with the prerequisites filled in.
Match(target, rule, targetTest) ==
    LET sepIndex == IndexOf(targetTest, "%")
        beforeContent == SubSeq(targetTest, 1, sepIndex - 1)
        afterContent == SubSeq(targetTest, sepIndex + 1, Len(targetTest))
        newKey == Spell(target)
        newReplacement == SubSeq(newKey, sepIndex,
                                 Len(newKey) - Len(afterContent))
    IN  IF "%" \notin Range(targetTest) THEN <<>>
        ELSE IF StartsWithAll(newKey, beforeContent)
                /\ EndsWithAll(newKey, afterContent)
        THEN <<[deps |-> [i \in DOMAIN rule.deps |->
                            Unspell(Substitute(Spell(rule.deps[i]),
                                               newReplacement))],
                cmds |-> rule.cmds]>>
        ELSE <<>>

\* Lines 353-381: what one pattern rule contributes, name by name.  (No
\* rule of this model has two wildcard names to the left of its colon.)
RECURSIVE MatchFrom(_, _, _)
MatchFrom(target, rule, i) ==
    IF i > Len(rule.generates) THEN <<>>
    ELSE Match(target, rule, Spell(rule.generates[i]))
         \o MatchFrom(target, rule, i + 1)

Candidate(target, rule) == MatchFrom(target, rule, 1)

\* Lines 357-364: a name to the left of the colon of a pattern rule is the
\* target itself.  The statement of lines 359-361 reads the local
\* dependsOn, which nothing has assigned: UnboundLocalError.
DirectHit(target, db) ==
    \E k \in DOMAIN db :
        /\ IsPatternSubstRecipe(k)
        /\ target \in Range(db[k].generates)

Raised(target, db) ==
    IF target \notin DOMAIN db /\ DirectHit(target, db)
    THEN "UnboundLocalError" ELSE ""

\* Lines 349-416: the candidates, in the order of the keys of the database
\* (a pattern rule's entry holds its place in that order); this model's
\* databases hold no suffix rule and no key that names the target's path
\* in another way.
RECURSIVE PotentialNewRules(_, _, _)
PotentialNewRules(target, db, i) ==
    LET keys == {k \in DOMAIN db : IsPatternSubstRecipe(k)}
    IN  IF \A k \in keys : db[k].at < i THEN <<>>
        ELSE (IF \E k \in keys : db[k].at = i
              THEN Candidate(target, db[CHOOSE k \in keys : db[k].at = i])
              ELSE <<>>)
             \o PotentialNewRules(target, db, i + 1)

\* Lines 422-431: how many prerequisites are neither phony nor found.  (No
\* prerequisite of this model holds a glob wildcard or is empty.)
RECURSIVE UnsatisfiableCount(_, _, _)
UnsatisfiableCount(deps, db, fs) ==
    IF deps = <<>> THEN 0
    ELSE (IF ~IsPhony(Head(deps), db) /\ FindFile(Head(deps), fs) = <<>>
          THEN 1 ELSE 0) + UnsatisfiableCount(Tail(deps), db, fs)

\* A test that also lets a candidate replace one that is as good.
BetterOrSame(unsatisfiableCount, fewest) ==
    fewest = <<>> \/ unsatisfiableCount <= fewest[1]

\* Lines 433-434: the first candidate, or one with fewer such
\* prerequisites than the one stored (<<>> stands for None).
Better(unsatisfiableCount, fewest) ==
    fewest = <<>> \/ unsatisfiableCount < fewest[1]

\* The loop of lines 418-439: the rule stored for the target, if any.
RECURSIVE StoredRule(_, _, _, _, _)
StoredRule(candidates, stored, fewest, db, fs) ==
    IF candidates = <<>> THEN stored
    ELSE LET count == UnsatisfiableCount(Head(candidates).deps, db, fs)
         IN  IF Better(count, fewest)
             THEN StoredRule(Tail(candidates), <<Head(candidates)>>,
                             <<count>>, db, fs)
             ELSE StoredRule(Tail(candidates), stored, fewest, db, fs)

\* A synthesizer that does not look for an entry of the target first.
GenerateUnchecked(t, db, fs) ==
    LET stored == StoredRule(PotentialNewRules(t, db, 1), <<>>, <<>>, db, fs)
    IN  IF stored = <<>> THEN db
        ELSE [k \in DOMAIN db \cup {t} |-> IF k = t THEN stored[1] ELSE db[k]]

\* generateRecipeFor, lines 344-440: the database with the rule stored for
\* the target, or the database as it was.
GenerateRecipeFor(t, db, fs) ==
    IF t \in DOMAIN db THEN db
    ELSE LET stored == StoredRule(PotentialNewRules(t, db, 1), <<>>, <<>>,
                                  db, fs)
         IN  IF stored = <<>> THEN db
             ELSE [k \in DOMAIN db \cup {t} |->
                      IF k = t THEN stored[1] ELSE db[k]]

\* list.reverse.
RECURSIVE Reverse(_)
Reverse(s) == IF s = <<>> THEN <<>> ELSE Append(Reverse(Tail(s)), Head(s))

\* getTargetActions, lines 193-256, as far as the list of names it returns
\* goes.  The rule lines are read from the last to the first; the names
\* to the left of the colon of a line that is no pattern rule are added in
\* the order they stand in, those that begin with "." to a list of their
\* own; at the end the list of the other names is reversed and the names
\* that begin with "." are put behind it.
RECURSIVE TargetNames(_, _, _)
TargetNames(lines, targetNames, specialTargetNames) ==
    IF lines = <<>> THEN Reverse(targetNames) \o specialTargetNames
    ELSE LET allGenerates == Last(lines).generates
             special == SelectSeq(allGenerates,
                                  LAMBDA g : Head(Spell(g)) = ".")
             others == SelectSeq(allGenerates,
                                 LAMBDA g : Head(Spell(g)) # ".")
         IN  IF IsPatternSubstRecipe(Last(lines).line)
             THEN TargetNames(Front(lines), targetNames, specialTargetNames)
             ELSE TargetNames(Front(lines), targetNames \o others,
                              specialTargetNames \o special)

\* Lines 240-243: oldRecipe.reverse(); currentRecipe.extend(oldRecipe).
\* currentRecipe holds the lines below the rule line, the last one first.
ExtendRecipe(currentRecipe, oldRecipe) == currentRecipe \o Reverse(oldRecipe)

\* The loop of lines 236-251 over the names to the left of the colon (the
\* list of names is left to TargetNames).  currentRecipe is one list for
\* all the names of the line.
RECURSIVE AddGenerates(_, _, _, _)
AddGenerates(allGenerates, dependsOn, result, currentRecipe) ==
    IF allGenerates = <<>> THEN result
    ELSE LET generates == Head(allGenerates)
             known == generates \in DOMAIN result
             currentDeps == IF known THEN dependsOn \o result[generates].deps
                            ELSE dependsOn
             recipe == IF known
                       THEN ExtendRecipe(currentRecipe, result[generates].cmds)
                       ELSE currentRecipe
             entry == [deps |-> currentDeps, cmds |-> Reverse(recipe)]
         IN  AddGenerates(Tail(allGenerates), dependsOn,
                          [x \in DOMAIN result \cup {generates} |->
                              IF x = generates THEN entry ELSE result[x]],
                          recipe)

\* getTargetActions, lines 193-251, as far as the database it returns goes.
\* The lines are read from the last to the first: a recipe line (rule FALSE)
\* is collected, a rule line takes the lines collected below it.  A pattern
\* rule is stored under the text of its line.
RECURSIVE TargetActions(_, _, _)
TargetActions(lines, result, currentRecipe) ==
    IF lines = <<>> THEN result
    ELSE LET line == Last(lines)
         IN  IF ~line.rule
             THEN TargetActions(Front(lines), result,
                                Append(currentRecipe, line.text))
             ELSE IF IsPatternSubstRecipe(line.line)
             THEN TargetActions(Front(lines),
                      [x \in DOMAIN result \cup {line.line} |->
                          IF x = line.line
                          THEN [generates |-> line.generates,
                                deps |-> line.dependsOn,
                                cmds |-> Reverse(currentRecipe)]
                          ELSE result[x]],
                      <<>>)
             ELSE TargetActions(Front(lines),
                      AddGenerates(line.generates, line.dependsOn, result,
                                   currentRecipe),
                      <<>>)

\* --------------------------------------------------------------- resolver
\* A comparison that takes a prerequisite of the same age for a newer one.
OlderOrSameAge(selfMTime, otherMTime) == selfMTime <= otherMTime

\* Line 506: the target is older than the prerequisite.
OlderThan(selfMTime, otherMTime) == selfMTime < otherMTime

\* prepareGenerateTarget.  The answer holds the verdict, the circular-
\* dependency warnings logged, the "No rule to make" errors reported, and
\* whether the error sink ended the thread (stopOnError); with them the
\* answers given where a warning was logged (back), the visiting set as the
\* call leaves it, and the number of calls nested in each other (depth).
RECURSIVE PrepareGenerateTarget(_, _, _, _, _)
RECURSIVE PrepareDeps(_, _, _, _, _, _, _)

\* A resolver that keeps quiet about a missing target without a rule.
NoRuleQuiet(target, selfExists, halt) ==
    [need |-> FALSE, warn |-> <<>>, err |-> <<>>, exit |-> FALSE]

\* Lines 474-481: the target has no rule.  Its file is there: up to date.
\* It is not: "No rule to make" goes to the error sink, and the answer is
\* False when the sink returns.
NoRuleAnswer(target, selfExists, halt) ==
    IF selfExists
    THEN [need |-> FALSE, warn |-> <<>>, err |-> <<>>, exit |-> FALSE]
    ELSE [need |-> FALSE, warn |-> <<>>, err |-> <<target>>, exit |-> halt]

\* Line 466: the answer for a target that is on the current path.
Revisit(target, fs) == FindFile(target, fs) = <<>>

\* A visiting set that keeps the target after its prerequisite is resolved.
KeepVisiting(visitingSet, target) == visitingSet

\* Line 512: visitingSet.remove(target).
RemoveVisiting(visitingSet, target) == visitingSet \ {target}

\* An answer given without a nested call, a warning or an error.
Verdict(need, visitingSet) ==
    [need |-> need, warn |-> <<>>, err |-> <<>>, exit |-> FALSE,
     back |-> <<>>, visiting |-> visitingSet, depth |-> 0]

PrepareGenerateTarget(target, visitingSet, db, fs, halt) ==
    IF target \in visitingSet
    THEN [need |-> Revisit(target, fs), warn |-> <<target>>,
          err |-> <<>>, exit |-> FALSE, back |-> <<Revisit(target, fs)>>,
          visiting |-> visitingSet, depth |-> 1]
    ELSE LET db2 == IF target \notin DOMAIN db
                    THEN GenerateRecipeFor(target, db, fs) ELSE db
             selfExists == FindFile(target, fs) # <<>>
             r == IF target \notin DOMAIN db2
                  THEN NoRuleAnswer(target, selfExists, halt)
                          @@ Verdict(FALSE, visitingSet)
                  ELSE IF ~selfExists THEN Verdict(TRUE, visitingSet)
                  ELSE IF IsPhony(target, db2) THEN Verdict(TRUE, visitingSet)
                  ELSE PrepareDeps(target, db2[target].deps, 1, visitingSet,
                                   db2, fs, halt)
         IN  [r EXCEPT !.depth = @ + 1]

\* The loop over the prerequisites (lines 495-516), from index i on.  One
\* set object goes through all the calls: the target is added before the
\* nested call (line 509) and removed when that call has returned.
PrepareDeps(target, deps, i, visitingSet, db, fs, halt) ==
    IF i > Len(deps)
    THEN Verdict(FALSE, visitingSet)
    ELSE LET dep == deps[i]
             yes == Verdict(TRUE, visitingSet)
         IN  IF IsPhony(dep, db) THEN yes
             ELSE IF FindFile(dep, fs) = <<>> THEN yes
             ELSE IF OlderThan(GetMTime(target, fs), GetMTime(dep, fs)) THEN yes
             ELSE LET r == PrepareGenerateTarget(
                               dep, visitingSet \cup {target}, db, fs, halt)
                      left == RemoveVisiting(r.visiting, target)
                  IN  IF r.exit THEN r
                      ELSE IF r.need THEN [r EXCEPT !.visiting = left]
                      ELSE LET rest == PrepareDeps(target, deps, i + 1,
                                                   left, db, fs, halt)
                           IN  [rest EXCEPT !.warn = r.warn \o rest.warn,
                                            !.err = r.err \o rest.err,
                                            !.back = r.back \o rest.back,
                                            !.depth = Max(r.depth, @)]

\* ----------------------------------------------------------- recipe text
\* The name inside a parenthesized reference, "" for any other token.
ParenName(tok) ==
    CASE tok = "$(@)" -> "@"
      [] tok = "$(<)" -> "<"
      [] tok = "$(^)" -> "^"
      [] tok = "$(X)" -> "X"
      [] tok = "$(Y)" -> "Y"
      [] tok = "$(Z)" -> "Z"
      [] tok = "$(F)" -> "F"
      [] tok = "$(v)" -> "v"
      [] tok = "$(0)" -> "0"
      [] tok = "$(1)" -> "1"
      [] tok = "$(2)" -> "2"
      [] OTHER -> ""

\* The character after the marker of a bare reference, "" for other tokens.
BareChar(tok) ==
    CASE tok = "$@" -> "@"
      [] tok = "$<" -> "<"
      [] tok = "$^" -> "^"
      [] OTHER -> ""

\* The name after the marker of a bare reference to a name of name
\* characters (lines 351-352 collect it up to the next other character),
\* "" for other tokens.  In $$X the marker pair stands for one marker and
\* X is plain text after it.
BareName(tok) ==
    CASE tok = "$X" -> "X"
      [] OTHER -> ""

AfterPair(tok) ==
    CASE tok = "$$X" -> "X"
      [] OTHER -> ""

\* The text of a marker and a name after it.
MarkerAnd(name) ==
    CASE name = "X" -> "$X"
      [] OTHER -> "$"

\* The result of an expansion: the text, the names reported to the error
\* sink as undefined, and what ended the expansion early, if anything did
\* ("exit": the sink ended the run; "RecursionError": the recursion limit).
Expanded(text) == [text |-> text, errs |-> <<>>, stop |-> ""]

\* An undefined name that takes the configured default although none is
\* configured, and reports nothing.
ExpandUndefinedQuiet(name, default, halt) ==
    Expanded(IF default = <<>> THEN <<>> ELSE default[1])

\* macroUtil.py lines 363-371: a name that is not defined.  It expands to
\* the configured default (<<d>>; <<>> stands for None); with none
\* configured it goes to the error sink, and when the sink returns, the name
\* itself stays in the text.
ExpandUndefined(name, default, halt) ==
    IF default = <<>>
    THEN [text |-> IF name = "" THEN <<>> ELSE <<name>>, errs |-> <<name>>,
          stop |-> IF halt THEN "exit" ELSE ""]
    ELSE Expanded(default[1])

RECURSIVE ExpandName(_, _, _, _, _)
RECURSIVE ExpandUsages(_, _, _, _, _)

\* macroUtil.py lines 354-371: the name of a reference.  The value of a
\* defined name is expanded in turn, against the same table; the table is
\* only read.  (No token of this model calls a function.)
ExpandName(name, macros, default, halt, depth) ==
    IF name \in DOMAIN macros
    THEN IF depth = 0
         THEN [text |-> <<>>, errs |-> <<>>, stop |-> "RecursionError"]
         ELSE ExpandUsages(macros[name], macros, default, halt, depth - 1)
    ELSE ExpandUndefined(name, default, halt)

\* expandMacroUsages on one token.  A parenthesized name is looked up.
\* After a bare marker the characters @, < and ^ are no name characters:
\* the empty name is looked up and the character itself is kept.  A marker
\* that follows a marker ends the reference and stands for itself (lines
\* 330-332).
ExpandToken(tok, macros, default, halt, depth) ==
    IF tok = "$$" THEN Expanded(<<"$">>)
    ELSE IF AfterPair(tok) # "" THEN Expanded(<<MarkerAnd(AfterPair(tok))>>)
    ELSE IF BareName(tok) # ""
    THEN ExpandName(BareName(tok), macros, default, halt, depth)
    ELSE IF ParenName(tok) # ""
    THEN ExpandName(ParenName(tok), macros, default, halt, depth)
    ELSE IF BareChar(tok) # ""
    THEN LET r == ExpandName("", macros, default, halt, depth)
         IN  IF r.stop # "" THEN r
             ELSE [r EXCEPT !.text = @ \o <<BareChar(tok)>>]
    ELSE Expanded(<<tok>>)

\* macroUtil.py lines 315-384, token by token.
ExpandUsages(line, macros, default, halt, depth) ==
    IF line = <<>> THEN Expanded(<<>>)
    ELSE LET r == ExpandToken(Head(line), macros, default, halt, depth)
         IN  IF r.stop # "" THEN r
             ELSE LET rest == ExpandUsages(Tail(line), macros, default, halt,
                                           depth)
                  IN  [text |-> r.text \o rest.text,
                       errs |-> r.errs \o rest.errs, stop |-> rest.stop]

\* expandMacroUsages as MakeUtil sets it up: undefined names expand to the
\* empty text (makeUtil.py line 161).
ExpandMacroUsages(line, macros) ==
    ExpandUsages(line, macros, <<<<>>>>, FALSE, MaxExpand).text

\* str.strip(): blanks off both ends.
RECURSIVE LStrip(_)
LStrip(s) == IF s # <<>> /\ Head(s) = " " THEN LStrip(Tail(s)) ELSE s

RECURSIVE RStrip(_)
RStrip(s) ==
    IF s # <<>> /\ s[Len(s)] = " " THEN RStrip(SubSeq(s, 1, Len(s) - 1)) ELSE s

Strip(s) == RStrip(LStrip(s))

StartsWith(s, tok) == s # <<>> /\ Head(s) = tok

\* Lines 582-583: a leading "@" is taken off the command.
DropSilent(command) ==
    IF StartsWith(command, "@") THEN Tail(command) ELSE command

\* An echo that looks at silent mode only.
EchoedUnlessSilent(command, isSilent) == ~isSilent

\* Lines 582-587: whether the command is printed before it runs (not when it
\* starts with "@", not in silent mode).
Echoed(command, isSilent) == ~StartsWith(command, "@") /\ ~isSilent

\* A scheduler to which every command is one that must not fail.
HaltAlways(command) == TRUE

\* Line 588: haltOnFail, on the command after the "@" was taken off.
HaltOnFail(command) == ~StartsWith(command, "-")

\* Lines 589-590: a leading "-" is taken off the command.
DropTolerant(command) ==
    IF StartsWith(command, "-") THEN Tail(command) ELSE command

\* Lines 575-578: the automatic variables of a target with prerequisite
\* paths depPaths, written into the table that is passed in.
SetAutomatic(macros, target, targetPath, depPaths) ==
    LET at == IF targetPath # <<>> THEN targetPath ELSE <<target>>
        keys == DOMAIN macros \cup {"@", "^"}
                    \cup (IF Len(depPaths) >= 1 THEN {"<"} ELSE {})
    IN  [x \in keys |->
            IF x = "@" THEN at
            ELSE IF x = "^" THEN depPaths
            ELSE IF x = "<" /\ Len(depPaths) >= 1 THEN <<depPaths[1]>>
            ELSE macros[x]]

\* Lines 531-537: a phony prerequisite keeps its name, another one gets the
\* path found for it, or its name.
DepPaths(deps, db, fs) ==
    [x \in DOMAIN deps |->
        IF IsPhony(deps[x], db) THEN deps[x]
        ELSE IF FindFile(deps[x], fs) # <<>> THEN FindFile(deps[x], fs)[1]
        ELSE deps[x]]

\* The effect of a command that ran with exit status 0: "touch f" writes the
\* file f now; any other command leaves the files alone.
RunEffect(command, fs) ==
    IF Len(command) >= 2 /\ command[1] = "touch" /\ command[2] \in DOMAIN fs
    THEN [fs EXCEPT ![command[2]] = Now(fs)]
    ELSE fs

\* A budget test that lets one job too many through.
BudgetTestInclusive(jobs, budget) == jobs <= budget

\* Line 546: the budget test.
BudgetTest(jobs, budget) == jobs < budget

\* ---------------------------------------------------------- text functions
\* int(): the number a token spells, <<>> when it spells none (ValueError).
ParseInt(tok) ==
    CASE tok = "0" -> <<0>>
      [] tok = "1" -> <<1>>
      [] tok = "2" -> <<2>>
      [] tok = "3" -> <<3>>
      [] tok = "4" -> <<4>>
      [] OTHER -> <<>>

\* SPACE_CHARS.split: the words between the blanks of a text; a text
\* without a blank is one word, the empty text one empty word.
RECURSIVE SplitSpace(_, _)
SplitSpace(text, word) ==
    IF text = <<>> THEN <<word>>
    ELSE IF Head(text) = " " THEN <<word>> \o SplitSpace(Tail(text), <<>>)
    ELSE SplitSpace(Tail(text), Append(word, Head(text)))

\* words[selectIndex] and its IndexError, lines 755-758: an index below
\* zero counts from the end of the list.
WordAt(words, selectIndex) ==
    IF 0 <= selectIndex /\ selectIndex < Len(words)
    THEN words[selectIndex + 1]
    ELSE IF selectIndex < 0 /\ 0 <= Len(words) + selectIndex
    THEN words[Len(words) + selectIndex + 1]
    ELSE <<>>

\* getWordOf, lines 724-758, given the arguments argumentSplit finds: the
\* text of the index and the text to pick the word from.
GetWordOf(indexText, argText, macros, default, halt) ==
    LET index == ExpandUsages(indexText, macros, default, halt, MaxExpand)
        text == ExpandUsages(Strip(argText), macros, default, halt, MaxExpand)
        number == IF Len(index.text) = 1 THEN ParseInt(index.text[1]) ELSE <<>>
    IN  IF number = <<>>
        THEN [text |-> <<>>, errs |-> <<"must be an integer">>,
              stop |-> IF halt THEN "exit" ELSE ""]
        ELSE [text |-> WordAt(SplitSpace(text.text, <<>>), number[1] - 1),
              errs |-> <<>>, stop |-> ""]

\* The status the process ends with: sys.exit(1) of the error sink
\* (errorUtil.py line 23), exit(2) of $(error ...) (makeUtil.py line 921);
\* 0 stands for a run that was not ended.
ExitStatus(stop) ==
    CASE stop = "exit" -> 1
      [] stop = "exit2" -> 2
      [] OTHER -> 0

\* An error function that leaves the ending of the run to the error sink.
PrintStopSink(cmd, halt) == IF cmd = "error" /\ halt THEN "exit" ELSE ""

\* makeCmdPrint, lines 920-923: after printing, error calls exit(2); warning
\* and info return.
PrintStop(cmd, halt) == IF cmd = "error" THEN "exit2" ELSE ""

\* makeCmdPrint, lines 905-923: the argument is expanded, printed to the
\* stream of the function (info: standard output; warning and error: the
\* error stream, behind the file and line), and the call returns the empty
\* text unless it ends the run.  An expansion of the argument that ends the
\* run ends it before anything is printed.
MakeCmdPrint(cmd, argstring, macros, default, halt) ==
    LET text == ExpandUsages(argstring, macros, default, halt, MaxExpand)
    IN  IF text.stop # ""
        THEN [text |-> <<>>, errs |-> text.errs, stop |-> text.stop,
              printed |-> <<>>]
        ELSE [text |-> <<>>, errs |-> text.errs, stop |-> PrintStop(cmd, halt),
              printed |-> <<[to |-> IF cmd = "info" THEN "stdout" ELSE "stderr",
                             fatal |-> cmd = "error", text |-> text.text]>>]

\* escapeSafeSplit(text, '%') followed by the joining of lines 1026-1027:
\* a text without a wildcard is one part; any other is the part before its
\* first wildcard and the part after it.
SplitPercent(text) ==
    IF "%" \notin Range(text) THEN <<text>>
    ELSE <<SubSeq(text, 1, IndexOf(text, "%") - 1),
           SubSeq(text, IndexOf(text, "%") + 1, Len(text))>>

\* word[start:-stop], the slice of line 1032: up to the last stop
\* characters; -0 is 0, the beginning of the word, so nothing is left.
Slice(word, start, stop) ==
    IF stop = 0 THEN <<>> ELSE SubSeq(word, start + 1, Len(word) - stop)

\* patsubst, lines 1003-1040, on the words of the text.
PatSubst(replaceText, replaceWith, words) ==
    LET pattern == SplitPercent(replaceText)
        with == SplitPercent(replaceWith)
        replaceExact == IF Len(pattern) = 1 THEN pattern[1] ELSE <<>>
        staticReplace == Len(with) <= 1
        before == pattern[1]
        after == IF Len(pattern) > 1 THEN pattern[2] ELSE <<>>
        first == with[1]
        second == IF Len(with) > 1 THEN with[2] ELSE <<>>
        Replaced(word) ==
            IF replaceExact = <<>> /\ StartsWithAll(word, before)
                                  /\ EndsWithAll(word, after)
            THEN IF ~staticReplace
                 THEN first \o Slice(word, Len(before), Len(after)) \o second
                 ELSE first
            ELSE IF replaceExact # <<>> /\ replaceExact = word
            THEN IF first # <<>> /\ second # <<>>
                 THEN first \o <<"%">> \o second
                 ELSE first \o second
            ELSE word
    IN  SelectSeq([i \in DOMAIN words |-> Replaced(words[i])],
                  LAMBDA word : word # <<>>)

\* ------------------------------------------------------------ macro files
\* A file is a sequence of lines and a line a sequence of tokens; the blanks
\* around an assignment operator and after a keyword are left out, as the
\* patterns of the code skip them.
AssignOps == {"=", ":=", "?=", "+="}

\* CONDITIONAL_START, the two keywords that test one name.  (The arguments
\* of ifeq and ifneq are split by shellUtil, which the source tree lacks.)
ConditionalStart == {"ifdef", "ifndef"}

\* A token made of macro-name characters.
IsWord(tok) ==
    /\ tok \notin AssignOps \cup {" ", "\t", ""}
    /\ ParenName(tok) = ""
    /\ BareChar(tok) = ""
    /\ BareName(tok) = ""
    /\ AfterPair(tok) = ""

\* A processor without a lazy-evaluation condition.
LazyNever(line) == FALSE

\* makeUtil.py lines 154-157: a recipe line is no definition and is not
\* expanded when the file is read.
ShouldLazyEval(line) == StartsWith(line, "\t")

\* isMacroDef, lines 79-85: IS_MACRO_DEF_RE and the definition conditions.
IsMacroDef(line) ==
    Len(line) >= 2 /\ IsWord(line[1]) /\ line[2] \in AssignOps

\* isMacroInvoke, lines 95-97: a reference to a name of name characters.
IsMacroInvoke(line) ==
    \E i \in DOMAIN line :
        \/ ParenName(line[i]) # "" /\ IsWord(ParenName(line[i]))
        \/ BareName(line[i]) # ""
        \/ AfterPair(line[i]) # ""

IsStart(line) == line # <<>> /\ line[1] \in ConditionalStart
IsElse(line) == StartsWith(line, "else")
IsStop(line) == StartsWith(line, "endif")

\* isConditional, lines 100-106.
IsConditional(line) == IsStart(line) \/ IsElse(line) \/ IsStop(line)

\* dict assignment macros[name] = value.
Define(macros, name, value) ==
    [n \in DOMAIN macros \cup {name} |-> IF n = name THEN value ELSE macros[n]]

\* A plain assignment that is expanded when it is made.
DeferNever(defineType) == FALSE

\* Lines 519-520: the plain operator defers the expansion of the value.
DeferExpand(defineType) == defineType = "="

\* A conditional assignment that always assigns.
DefineAlways(defineType, name, macros) == FALSE

\* Lines 515-516: ?= on a name that is in the table defines nothing.
DoNotDefine(defineType, name, macros) ==
    defineType = "?=" /\ name \in DOMAIN macros

\* An appending assignment that forgets the earlier value.
ConcatNothing(defineType, name, macros) == <<>>

\* Lines 511, 517-518: += on a name that is in the table starts from its
\* stored value.
ConcatWith(defineType, name, macros) ==
    IF defineType = "+=" /\ name \in DOMAIN macros THEN macros[name] ELSE <<>>

\* Lines 525-526: one blank between the two parts when neither is empty;
\* the new part is tested as it is written, before any expansion.
Joined(concatWith, definedTo) ==
    IF concatWith # <<>> /\ definedTo # <<>>
    THEN Append(concatWith, " ") ELSE concatWith

\* The state of one expandAndDefineMacros call: the table, the text put
\* out so far (one entry per line), conditionalData (<<>> for None), the
\* messages given to the error sink and what ended the call early.
Reading(macros) ==
    [macros |-> macros, result |-> <<>>, cond |-> <<>>, errs |-> <<>>,
     stop |-> ""]

\* errorLogger.reportError from the macro processor.
Sink(st, message, halt) ==
    [st EXCEPT !.errs = Append(@, message),
               !.stop = IF halt THEN "exit" ELSE @]

\* Lines 499-532: one definition line.
DefineMacro(st, line, default, halt) ==
    LET name == line[1]
        defineType == line[2]
        definedTo == LStrip(SubSeq(line, 3, Len(line)))
        concatWith == Joined(ConcatWith(defineType, name, st.macros),
                             definedTo)
        e == ExpandUsages(definedTo, st.macros, default, halt, MaxExpand)
        put == [st EXCEPT !.result = Append(@, <<>>)]
    IN  IF DoNotDefine(defineType, name, st.macros) THEN put
        ELSE IF DeferExpand(defineType)
        THEN [put EXCEPT !.macros = Define(@, name, concatWith \o definedTo)]
        ELSE IF e.stop # ""
        THEN [st EXCEPT !.errs = @ \o e.errs, !.stop = e.stop]
        ELSE [put EXCEPT !.macros = Define(@, name, concatWith \o e.text),
                         !.errs = @ \o e.errs]

\* Lines 473-476: a line of the conditional goes to the branch being
\* collected.
Collect(c, line) ==
    IF c.hasElse THEN [c EXCEPT !.elseBranch = Append(@, line)]
    ELSE [c EXCEPT !.ifBranch = Append(@, line)]

\* An else that is taken for the conditional being collected wherever it
\* stands.
ElseAnywhere(c) == TRUE

\* Lines 410-412: an else belongs to the conditional being collected when
\* no conditional nested in the current branch is open.
ElseApplies(c) == Len(c.stack) = Last(c.endifWeight)

\* Lines 413-435: else, or else followed by a condition.
CollectElse(c, line) ==
    LET rest == Strip(Tail(line))
        c1 == [c EXCEPT !.hasElse = TRUE,
                        !.elseBranch =
                            Append(IF ~c.hasElse \/ c.elseBranch = <<>>
                                   THEN <<>>
                                   ELSE Append(c.elseBranch, <<"else">>),
                                   rest)]
    IN  IF IsStart(rest)
        THEN [c1 EXCEPT !.stack = Append(@, rest),
                        !.endifWeight = Append(@, Last(@) + 1)]
        ELSE c1

\* Lines 441-446: an endif closes every else-if that hangs on the
\* conditional it ends.
CloseChain(c) ==
    LET w == Last(c.endifWeight)
    IN  [c EXCEPT !.elseBranch = @ \o [i \in 1..(w - 1) |-> <<"endif">>],
                  !.stack = SubSeq(@, 1, Len(@) - (w - 1)),
                  !.endifWeight = Front(@)]

\* A choice that keeps both branches.
BothBranches(choseIfBranch, ifBranch, elseBranch) == ifBranch \o elseBranch

\* Lines 191-193.
ChosenBranch(choseIfBranch, ifBranch, elseBranch) ==
    IF choseIfBranch THEN ifBranch ELSE elseBranch

\* evaluateIf, lines 124-193, for ifdef and ifndef: the text after the
\* keyword is expanded and looked up in the table.
EvaluateIf(conditionalContent, ifBranch, elseBranch, macros, default, halt) ==
    LET arg == ExpandUsages(Strip(Tail(conditionalContent)), macros, default,
                            halt, MaxExpand)
        argText == Strip(arg.text)
        defined == Len(argText) = 1 /\ argText[1] \in DOMAIN macros
        choseIfBranch == IF conditionalContent[1] = "ifdef" THEN defined
                         ELSE ~defined
    IN  [branch |-> ChosenBranch(choseIfBranch, ifBranch, elseBranch),
         errs |-> arg.errs, stop |-> arg.stop]

\* An endif that is taken for the conditional being collected whatever is
\* open inside it.
ToOuterIf(c) == FALSE

\* Lines 450-452: after the endif has closed its chain, a conditional that
\* is still on the stack above the first makes it the endif of a nested one.
ToSubIf(c) == Len(c.stack) > 1

RECURSIVE ExpandAndDefineMacros(_, _, _, _)

\* Lines 403-477: one line while a conditional is being collected.  The
\* endif of the outermost conditional picks a branch and processes its
\* text with a call of its own; getLines gives that text a last, empty line.
CollectLine(st, line, default, halt) ==
    LET c == st.cond[1]
        closed == CloseChain(c)
        if == EvaluateIf(Last(closed.stack), closed.ifBranch,
                         closed.elseBranch, st.macros, default, halt)
        inner == ExpandAndDefineMacros(Append(if.branch, <<>>), st.macros,
                                       default, halt)
    IN  IF IsConditional(line) /\ IsStart(line)
        THEN [st EXCEPT !.cond =
                 <<Collect([c EXCEPT !.stack = Append(@, line),
                                     !.endifWeight = Append(@, 1)], line)>>]
        ELSE IF IsConditional(line) /\ IsElse(line) /\ ElseApplies(c)
        THEN [st EXCEPT !.cond = <<CollectElse(c, line)>>]
        ELSE IF IsConditional(line) /\ IsStop(line)
        THEN IF ToSubIf(closed)
             THEN [st EXCEPT !.cond =
                      <<Collect([closed EXCEPT !.stack = Front(@)], line)>>]
             ELSE IF if.stop # ""
             THEN [st EXCEPT !.errs = @ \o if.errs, !.stop = if.stop]
             ELSE [macros |-> inner.macros,
                   result |-> st.result \o inner.result \o << <<>> >>,
                   cond |-> <<>>,
                   errs |-> st.errs \o if.errs \o inner.errs,
                   stop |-> inner.stop]
        ELSE [st EXCEPT !.cond = <<Collect(c, line)>>]

\* Lines 495-560: one line outside a conditional.  (The lines of this model
\* hold no comment, no define block and no export.)
PlainLine(st, line, default, halt) ==
    LET e == ExpandUsages(line, st.macros, default, halt, MaxExpand)
        started == [st EXCEPT !.cond = <<[ifBranch |-> <<>>, hasElse |-> FALSE,
                                          elseBranch |-> <<>>,
                                          stack |-> <<line>>,
                                          endifWeight |-> <<1>>]>>,
                              !.result = Append(@, <<>>)]
    IN  IF IsMacroDef(line) /\ ~ShouldLazyEval(line)
        THEN DefineMacro(st, line, default, halt)
        ELSE IF IsConditional(line) /\ ~ShouldLazyEval(line)
        THEN IF IsStart(line) THEN started
             ELSE IF halt THEN Sink(st, "without a leading if", halt)
             ELSE Sink(started, "without a leading if", halt)
        ELSE IF IsMacroInvoke(line) /\ ~ShouldLazyEval(line)
        THEN IF e.stop # ""
             THEN [st EXCEPT !.errs = @ \o e.errs, !.stop = e.stop]
             ELSE [st EXCEPT !.result = Append(@, e.text),
                             !.errs = @ \o e.errs]
        ELSE [st EXCEPT !.result = Append(@, line)]

\* The loop of lines 397-560.
RECURSIVE DefineLines(_, _, _, _)
DefineLines(lines, st, default, halt) ==
    IF lines = <<>> \/ st.stop # "" THEN st
    ELSE DefineLines(Tail(lines),
                     IF st.cond # <<>>
                     THEN CollectLine(st, Head(lines), default, halt)
                     ELSE PlainLine(st, Head(lines), default, halt),
                     default, halt)

\* expandAndDefineMacros, lines 388-567.
ExpandAndDefineMacros(contents, macros, default, halt) ==
    LET st == DefineLines(contents, Reading(macros), default, halt)
    IN  IF st.stop = "" /\ st.cond # <<>>
        THEN Sink(st, "Un-ending conditional", halt)
        ELSE st

\* ------------------------------------------------------- stripComments
\* macroUtil.py lines 234-239: the state of the scan of one line, a
\* sequence of characters.
Scanning ==
    [singleLevel |-> [q \in {"\"", "'"} |-> FALSE],
     inSomeSingleLevel |-> FALSE,
     multiLevelOpen |-> [b \in {"(", "{"} |-> 0],
     escaped |-> FALSE, trimToIndex |-> 0, errs |-> <<>>, stop |-> ""]

\* Line 237.
MultiLevelClose(c) == IF c = ")" THEN "(" ELSE "{"

\* Lines 242-262 and 266-268: what one character that does not end the
\* scan does to the state.
Track(s, c, halt) ==
    LET t == [s EXCEPT !.trimToIndex = @ + 1]
    IN  IF c \in {"\"", "'"} /\ ~s.escaped
        THEN IF ~s.inSomeSingleLevel
             THEN [t EXCEPT !.inSomeSingleLevel = TRUE,
                            !.singleLevel[c] = TRUE]
             ELSE IF s.singleLevel[c]
             THEN [t EXCEPT !.inSomeSingleLevel = FALSE,
                            !.singleLevel[c] = FALSE]
             ELSE t
        ELSE IF c = "\\" /\ ~s.escaped THEN [t EXCEPT !.escaped = TRUE]
        ELSE IF c = "\\" /\ s.escaped THEN [t EXCEPT !.escaped = FALSE]
        ELSE IF c \in {"(", "{"} /\ ~s.escaped /\ ~s.inSomeSingleLevel
        THEN [t EXCEPT !.multiLevelOpen[c] = @ + 1]
        ELSE IF c \in {")", "}"} /\ ~s.escaped /\ ~s.inSomeSingleLevel
        THEN IF s.multiLevelOpen[MultiLevelClose(c)] = 0
             THEN [s EXCEPT !.errs = Append(@, "Parentheses mismatch"),
                            !.stop = IF halt THEN "exit" ELSE @,
                            !.trimToIndex = IF halt THEN @ ELSE @ + 1]
             ELSE [t EXCEPT !.multiLevelOpen[MultiLevelClose(c)] = @ - 1]
        ELSE [t EXCEPT !.escaped = FALSE]

\* Lines 263-265: the character at which the scan ends.
IsCommentStart(s, c, line, force) ==
    /\ c = "#"
    /\ ~s.escaped
    /\ ~s.inSomeSingleLevel
    /\ (~ShouldLazyEval(line) \/ force)

\* The loop of lines 241-268, from character i on.
RECURSIVE ScanFrom(_, _, _, _, _)
ScanFrom(s, i, line, force, halt) ==
    IF i > Len(line) \/ s.stop # "" THEN s
    ELSE IF IsCommentStart(s, line[i], line, force) THEN s
    ELSE ScanFrom(Track(s, line[i], halt), i + 1, line, force, halt)

\* stripComments, lines 233-269.
StripComments(line, force, halt) ==
    LET s == ScanFrom(Scanning, 1, line, force, halt)
    IN  [text |-> SubSeq(line, 1, s.trimToIndex), errs |-> s.errs,
         stop |-> s.stop]

\* ------------------------------------------- functions with a private table
\* An assignment made to the table of the caller itself.
BindInPlace(macros, name, value) ==
    [outer |-> Define(macros, name, value),
     inner |-> Define(macros, name, value)]

\* makeUtil.py lines 941-942 and 952-954: macros.copy() and an assignment to
\* the copy.  outer is the table of the caller after it, inner the table the
\* function goes on with.
CopyAndBind(macros, name, value) ==
    [outer |-> macros, inner |-> Define(macros, name, value)]

\* The name a text of one token spells (the names of this model are single
\* tokens).
NameOf(text) == IF Len(text) = 1 THEN text[1] ELSE ""

\* " ".join(result).
RECURSIVE JoinTexts(_)
JoinTexts(texts) ==
    IF texts = <<>> THEN <<>>
    ELSE IF Len(texts) = 1 THEN texts[1]
    ELSE texts[1] \o <<" ">> \o JoinTexts(Tail(texts))

\* The loop of makeCmdForeach, lines 940-943: each entry is bound in a copy
\* of the table and the text is expanded against the copy.
RECURSIVE ForeachEntries(_, _, _, _, _, _)
ForeachEntries(entries, varname, text, macros, default, halt) ==
    IF entries = <<>>
    THEN [texts |-> <<>>, errs |-> <<>>, stop |-> "", macros |-> macros]
    ELSE LET each == CopyAndBind(macros, varname, Head(entries))
             r == ExpandUsages(text, each.inner, default, halt, MaxExpand)
         IN  IF r.stop # ""
             THEN [texts |-> <<>>, errs |-> r.errs, stop |-> r.stop,
                   macros |-> each.outer]
             ELSE LET rest == ForeachEntries(Tail(entries), varname, text,
                                             each.outer, default, halt)
                  IN  [texts |-> <<r.text>> \o rest.texts,
                       errs |-> r.errs \o rest.errs, stop |-> rest.stop,
                       macros |-> rest.macros]

\* makeCmdForeach, lines 926-945, given the three arguments argumentSplit
\* finds: the name and the list are expanded, the text is expanded once for
\* each word of the list.  The answer holds the table of the caller as the
\* call leaves it.
MakeCmdForeach(args, macros, default, halt) ==
    LET varname == ExpandUsages(args[1], macros, default, halt, MaxExpand)
        list == ExpandUsages(args[2], macros, default, halt, MaxExpand)
    IN  IF varname.stop # "" \/ list.stop # ""
        THEN [text |-> <<>>, errs |-> varname.errs \o list.errs,
              stop |-> IF varname.stop # "" THEN varname.stop ELSE list.stop,
              macros |-> macros]
        ELSE LET r == ForeachEntries(SplitSpace(list.text, <<>>),
                                     NameOf(varname.text), args[3], macros,
                                     default, halt)
             IN  [text |-> JoinTexts(r.texts),
                  errs |-> varname.errs \o list.errs \o r.errs,
                  stop |-> r.stop, macros |-> r.macros]

\* str(index) of line 954.
IndexName(index) == <<"0", "1", "2", "3">>[index + 1]

\* Lines 953-954 from the second argument on: call_macros[str(index)] = arg.
RECURSIVE BindArgs(_, _, _)
BindArgs(args, i, call_macros) ==
    IF i > Len(args) THEN call_macros
    ELSE BindArgs(args, i + 1, Define(call_macros, IndexName(i - 1), args[i]))

\* makeCmdCall, lines 948-961, given the arguments argumentSplit finds: the
\* arguments are bound, unexpanded, to 0, 1, ... in a copy of the table, and
\* the value of the named macro is expanded against the copy; macros[varname]
\* of an undefined name raises KeyError.  (No name of this model is a
\* registered function.)
MakeCmdCall(args, macros, default, halt) ==
    LET varname == ExpandUsages(args[1], macros, default, halt, MaxExpand)
        copied == CopyAndBind(macros, IndexName(0), args[1])
        call_macros == BindArgs(args, 2, copied.inner)
        name == NameOf(Strip(varname.text))
    IN  IF varname.stop # ""
        THEN [text |-> <<>>, errs |-> varname.errs, stop |-> varname.stop,
              macros |-> macros]
        ELSE IF name \notin DOMAIN macros
        THEN [text |-> <<>>, errs |-> varname.errs, stop |-> "KeyError",
              macros |-> copied.outer]
        ELSE LET r == ExpandUsages(macros[name], call_macros, default, halt,
                                   MaxExpand)
             IN  [text |-> r.text, errs |-> varname.errs \o r.errs,
                  stop |-> r.stop, macros |-> copied.outer]

\* ------------------------------------------------------------------ state
VARIABLES
    targets,      \* the rule database: target -> [deps, cmds]
    fs,           \* the files: name -> modification time, 0 = missing
    fs0,          \* the files as they were when the run began
    goal,         \* the target runMakefile is asked for
    maxJobs,      \* MakeUtil.maxJobs
    stopOnError,  \* ErrorUtil.stopOnError
    silent,       \* MakeUtil.silent and ErrorUtil.silent (setSilent sets both)
    justPrint,    \* MakeUtil.justPrint
    currentJobs,  \* MakeUtil.currentJobs
    jobLock,      \* MakeUtil.jobLock: the set holding the thread that has it
    pending,      \* MakeUtil.pending: prerequisite -> {thread}, {} for None
    macros,       \* the macro table shared by every satisfyDependencies call
    thr,          \* threads: thread -> [st, stack of satisfyDependencies frames]
    satisfied,    \* runMakefile's satisfied: <<>> until the call has returned
    out,          \* thread -> what it printed, ran and reported, in order
    answer,       \* a function call on its own: <<its answer>>
    call          \* the function that is called on its own, and its arguments

vars == <<targets, fs, fs0, goal, maxJobs, stopOnError, silent, justPrint,
          currentJobs, jobLock, pending, macros, thr, satisfied, out, answer,
          call>>

config == <<targets, fs0, goal, maxJobs, stopOnError, silent, justPrint,
            answer, call>>

\* A frame of satisfyDependencies(t): its position pc, the loop indices i
\* (prerequisites), j (pendingJobs) and k (commands), its locals targetPath,
\* depPaths, pendingJobs and the expanded command, and the prerequisites it
\* has judged to need building so far.
NewFrame(t) ==
    [t |-> t, pc |-> "enter", i |-> 1, j |-> 1, k |-> 1, targetPath |-> <<>>,
     depPaths |-> <<>>, pendingJobs |-> <<>>, command |-> <<>>, judged |-> {}]

Idle == [st |-> "unused", stack |-> <<>>]

Top(tid) == thr[tid].stack[Len(thr[tid].stack)]

At(tid, pc) ==
    /\ thr[tid].st = "run"
    /\ thr[tid].stack # <<>>
    /\ Top(tid).pc = pc

Deps(t) == targets[t].deps
Cmds(t) == targets[t].cmds

WithTop(tid, f) ==
    [thr EXCEPT ![tid].stack = [@ EXCEPT ![Len(@)] = f]]

\* errorUtil.py lines 17-19: an error handed to the sink, which prints it
\* unless silent mode is on and stopOnError is off.  (Lines 21-23, the exit,
\* are Raise below.)
ReportError(what, text) ==
    [k |-> "error", what |-> what, text |-> text,
     shown |-> ~silent \/ stopOnError]

\* errorUtil.py lines 25-27: a warning, printed unless silent mode is on.
LogWarning(t) == [k |-> "warn", t |-> t, shown |-> ~silent]

\* The events a resolver answer adds to the output: logWarning and
\* reportError are called in the order of the walk (an answer never holds
\* both).
ResolverEvents(r) ==
    [x \in DOMAIN r.warn |-> LogWarning(r.warn[x])]
    \o [x \in DOMAIN r.err |-> ReportError("norule", <<r.err[x]>>)]

\* A runMakefile that prints its message in silent mode too.
NothingToDoLoud(val, isSilent) == ~val

\* Line 1069: whether "Nothing to be done for target" is printed.
NothingToDo(val, isSilent) == ~val /\ ~isSilent

\* An uncaught exception or SystemExit ends the thread that raised it; the
\* other threads run on (the interpreter waits for them at exit).
Raise(tid, o) ==
    /\ thr' = [thr EXCEPT ![tid] = [st |-> "dead", stack |-> <<>>]]
    /\ out' = [out EXCEPT ![tid] = o]
    /\ UNCHANGED satisfied

\* satisfyDependencies returns val.  The outermost frame of a worker ends the
\* thread; the outermost frame of the main thread returns into runMakefile
\* (lines 1067-1070); an inner frame returns to line 557 of its caller, which
\* goes on with the next prerequisite.
Return(tid, val, o) ==
    LET st == thr[tid].stack
        n == Len(st)
    IN  IF n = 1
        THEN /\ thr' = [thr EXCEPT ![tid] = [st |-> "done", stack |-> <<>>]]
             /\ IF tid = Main
                THEN /\ satisfied' = <<val>>
                     /\ out' = [out EXCEPT ![tid] =
                                  IF NothingToDo(val, silent)
                                  THEN Append(o, [k |-> "nothing", t |-> goal])
                                  ELSE o]
                ELSE /\ out' = [out EXCEPT ![tid] = o]
                     /\ UNCHANGED satisfied
        ELSE /\ thr' = [thr EXCEPT ![tid].stack =
                           Append(SubSeq(st, 1, n - 2),
                                  [st[n - 1] EXCEPT !.pc = "loop", !.i = @ + 1])]
             /\ out' = [out EXCEPT ![tid] = o]
             /\ UNCHANGED satisfied

\* --------------------------------------------------------------- scheduler
\* A lock that any thread gets at any time.
LockAlwaysFree(lock) == TRUE

\* threading.Lock.acquire returns only when no thread holds the lock.
LockFree(lock) == lock = {}

\* Lines 525-539 for a target whose own verdict is r.
EnterWith(tid, r) ==
    LET f == Top(tid)
        o == out[tid] \o ResolverEvents(r)
    IN  IF r.exit THEN Raise(tid, o)
        ELSE IF ~r.need THEN Return(tid, FALSE, o)
        ELSE /\ thr' = WithTop(tid,
                    [f EXCEPT !.pc = "loop",
                              !.targetPath = FindFile(f.t, fs),
                              !.depPaths = DepPaths(Deps(f.t), targets, fs)])
             /\ out' = [out EXCEPT ![tid] = o]
             /\ UNCHANGED satisfied

\* Lines 521-539: the target's own verdict, then its path and the paths of
\* its prerequisites.
Enter(tid) ==
    /\ At(tid, "enter")
    /\ EnterWith(tid, PrepareGenerateTarget(Top(tid).t, {}, targets, fs,
                                            stopOnError))
    /\ UNCHANGED <<config, fs, currentJobs, jobLock, pending, macros>>

\* Lines 543-544 for the prerequisite dep whose verdict is r.
LoopWith(tid, dep, r) ==
    LET f == Top(tid)
        o == out[tid] \o ResolverEvents(r)
    IN  IF r.exit THEN Raise(tid, o)
        ELSE /\ thr' = WithTop(tid,
                    IF r.need
                    THEN [f EXCEPT !.pc = "acquire",
                                   !.judged = @ \cup {dep}]
                    ELSE [f EXCEPT !.i = @ + 1])
             /\ out' = [out EXCEPT ![tid] = o]
             /\ UNCHANGED satisfied

\* Lines 541-544: the next prerequisite's verdict; after the last one the
\* loops over pendingJobs follow (they do nothing on an empty list).
Loop(tid) ==
    /\ At(tid, "loop")
    /\ LET f == Top(tid)
       IN  IF f.i > Len(Deps(f.t))
           THEN /\ thr' = WithTop(tid,
                       [f EXCEPT !.pc = IF f.pendingJobs = <<>> THEN "auto"
                                        ELSE "start",
                                 !.j = 1])
                /\ UNCHANGED <<out, satisfied>>
           ELSE LoopWith(tid, Deps(f.t)[f.i],
                         PrepareGenerateTarget(Deps(f.t)[f.i], {}, targets,
                                               fs, stopOnError))
    /\ UNCHANGED <<config, fs, currentJobs, jobLock, pending, macros>>

\* Line 545: jobLock.acquire().
Acquire(tid) ==
    /\ At(tid, "acquire")
    /\ LockFree(jobLock)
    /\ jobLock' = {tid}
    /\ thr' = WithTop(tid, [Top(tid) EXCEPT !.pc = "test"])
    /\ UNCHANGED <<config, fs, currentJobs, pending, macros, satisfied, out>>

\* Line 546, and on the else branch lines 556-557: the lock is released and
\* the prerequisite is built by a nested call in this thread.
Test(tid) ==
    /\ At(tid, "test")
    /\ LET f == Top(tid)
           dep == Deps(f.t)[f.i]
       IN  IF BudgetTest(currentJobs, maxJobs) /\ dep \notin DOMAIN pending
           THEN /\ thr' = WithTop(tid, [f EXCEPT !.pc = "inc"])
                /\ UNCHANGED <<jobLock, out, satisfied>>
           ELSE /\ jobLock' = jobLock \ {tid}
                /\ IF Len(thr[tid].stack) >= MaxDepth
                   THEN Raise(tid, Append(out[tid], [k |-> "raise",
                                                what |-> "RecursionError"]))
                   ELSE /\ thr' = [thr EXCEPT ![tid].stack =
                                      Append([@ EXCEPT ![Len(@)].pc = "called"],
                                             NewFrame(dep))]
                        /\ UNCHANGED <<out, satisfied>>
    /\ UNCHANGED <<config, fs, currentJobs, pending, macros>>

\* Lines 547-548: the job is counted and the lock released.
Inc(tid) ==
    /\ At(tid, "inc")
    /\ currentJobs' = currentJobs + 1
    /\ jobLock' = jobLock \ {tid}
    /\ thr' = WithTop(tid, [Top(tid) EXCEPT !.pc = "mkthread"])
    /\ UNCHANGED <<config, fs, pending, macros, satisfied, out>>

\* Lines 550-554: a thread object for the prerequisite is made, registered
\* in pending under the prerequisite's name, and the name is noted.
MkThread(tid) ==
    /\ At(tid, "mkthread")
    /\ \E w \in Workers :
        /\ thr[w].st = "unused"
        /\ \A v \in Workers : thr[v].st = "unused" => w <= v
        /\ LET f == Top(tid)
               dep == Deps(f.t)[f.i]
           IN  /\ thr' = [WithTop(tid,
                             [f EXCEPT !.pc = "loop", !.i = @ + 1,
                                       !.pendingJobs = Append(@, dep)])
                          EXCEPT ![w] = [st |-> "new",
                                         stack |-> <<NewFrame(dep)>>]]
               /\ pending' = [x \in DOMAIN pending \cup {dep} |->
                                 IF x = dep THEN {w} ELSE pending[x]]
    /\ UNCHANGED <<config, fs, currentJobs, jobLock, macros, satisfied, out>>

\* Lines 559-560: pending[job].start().  None has no start, and a thread
\* object can be started once.
Start(tid) ==
    /\ At(tid, "start")
    /\ LET f == Top(tid)
           h == pending[f.pendingJobs[f.j]]
       IN  IF h = {}
           THEN Raise(tid, Append(out[tid], [k |-> "raise",
                                        what |-> "AttributeError"]))
           ELSE LET w == CHOOSE x \in h : TRUE
                IN  IF thr[w].st # "new"
                    THEN Raise(tid, Append(out[tid], [k |-> "raise",
                                                 what |-> "RuntimeError"]))
                    ELSE /\ thr' = [WithTop(tid,
                                       IF f.j = Len(f.pendingJobs)
                                       THEN [f EXCEPT !.pc = "join", !.j = 1]
                                       ELSE [f EXCEPT !.j = @ + 1])
                                    EXCEPT ![w].st = "run"]
                         /\ UNCHANGED <<out, satisfied>>
    /\ UNCHANGED <<config, fs, currentJobs, jobLock, pending, macros>>

\* Line 564: pending[job].join() returns when that thread has ended.  None
\* has no join, and a thread that was not started cannot be joined.
Join(tid) ==
    /\ At(tid, "join")
    /\ LET f == Top(tid)
           h == pending[f.pendingJobs[f.j]]
       IN  IF h = {}
           THEN Raise(tid, Append(out[tid], [k |-> "raise",
                                        what |-> "AttributeError"]))
           ELSE LET w == CHOOSE x \in h : TRUE
                IN  IF thr[w].st = "new"
                    THEN Raise(tid, Append(out[tid], [k |-> "raise",
                                                 what |-> "RuntimeError"]))
                    ELSE /\ thr[w].st \in {"done", "dead"}
                         /\ thr' = WithTop(tid, [f EXCEPT !.pc = "clear"])
                         /\ UNCHANGED <<out, satisfied>>
    /\ UNCHANGED <<config, fs, currentJobs, jobLock, pending, macros>>

\* Line 565: pending[job] = None (the key stays).
Clear(tid) ==
    /\ At(tid, "clear")
    /\ LET f == Top(tid)
       IN  /\ pending' = [pending EXCEPT ![f.pendingJobs[f.j]] = {}]
           /\ thr' = WithTop(tid, [f EXCEPT !.pc = "acquire2"])
    /\ UNCHANGED <<config, fs, currentJobs, jobLock, macros, satisfied, out>>

\* Line 567: jobLock.acquire().
Acquire2(tid) ==
    /\ At(tid, "acquire2")
    /\ LockFree(jobLock)
    /\ jobLock' = {tid}
    /\ thr' = WithTop(tid, [Top(tid) EXCEPT !.pc = "dec"])
    /\ UNCHANGED <<config, fs, currentJobs, pending, macros, satisfied, out>>

\* Lines 568-569: the job is taken off the count and the lock released.
Dec(tid) ==
    /\ At(tid, "dec")
    /\ currentJobs' = currentJobs - 1
    /\ jobLock' = jobLock \ {tid}
    /\ LET f == Top(tid)
       IN  thr' = WithTop(tid,
                     IF f.j = Len(f.pendingJobs)
                     THEN [f EXCEPT !.pc = "auto"]
                     ELSE [f EXCEPT !.pc = "join", !.j = @ + 1])
    /\ UNCHANGED <<config, fs, pending, macros, satisfied, out>>

\* Lines 575-578: the automatic variables go into the shared table.  A
\* target without commands returns True at once (line 619).
Auto(tid) ==
    /\ At(tid, "auto")
    /\ LET f == Top(tid)
       IN  /\ macros' = SetAutomatic(macros, f.t, f.targetPath, f.depPaths)
           /\ IF Cmds(f.t) = <<>>
              THEN Return(tid, TRUE, out[tid])
              ELSE /\ thr' = WithTop(tid, [f EXCEPT !.pc = "cmd", !.k = 1])
                   /\ UNCHANGED <<out, satisfied>>
    /\ UNCHANGED <<config, fs, currentJobs, jobLock, pending>>

\* Lines 585-587 for the expanded command.
CmdWith(tid, command) ==
    LET f == Top(tid)
    IN  /\ thr' = WithTop(tid, [f EXCEPT !.pc = "run",
                                         !.command = command])
        /\ out' = IF Echoed(command, silent)
                  THEN [out EXCEPT ![tid] =
                           Append(@, [k |-> "echo", t |-> f.t, n |-> f.k,
                                      text |-> command])]
                  ELSE out

\* Lines 581-587: the command is expanded against the shared table and
\* printed unless it is marked silent.
Cmd(tid) ==
    /\ At(tid, "cmd")
    /\ CmdWith(tid, Strip(ExpandMacroUsages(Cmds(Top(tid).t)[Top(tid).k],
                                            macros)))
    /\ UNCHANGED <<config, fs, currentJobs, jobLock, pending, macros,
                   satisfied>>

\* The exit status of a command: 0, or a failure (a non-zero status, or an
\* exception raised while running it).
ExitCodes == {0, 1}

\* Lines 588-619: the command runs; a failure of a command that is not
\* marked tolerant goes to the error sink, which ends the thread when
\* stopOnError is set.  After the last command the call returns True.
Run(tid) ==
    /\ At(tid, "run")
    /\ LET f == Top(tid)
           haltOnFail == HaltOnFail(DropSilent(f.command))
           command == DropTolerant(DropSilent(f.command))
       IN  \E status \in ExitCodes :
            /\ justPrint => status = 0
            /\ fs' = IF ~justPrint /\ status = 0 THEN RunEffect(command, fs)
                     ELSE fs
            /\ LET ran == Append(out[tid],
                            IF justPrint
                            THEN [k |-> "print", t |-> f.t, n |-> f.k,
                                  text |-> command]
                            ELSE [k |-> "run", t |-> f.t, n |-> f.k,
                                  text |-> command, status |-> status])
                   failed == status # 0 /\ haltOnFail
                   o == IF failed
                        THEN Append(ran, ReportError("command", command))
                        ELSE ran
               IN  IF failed /\ stopOnError THEN Raise(tid, o)
                   ELSE IF f.k = Len(Cmds(f.t)) THEN Return(tid, TRUE, o)
                   ELSE /\ thr' = WithTop(tid, [f EXCEPT !.pc = "cmd",
                                                         !.k = @ + 1])
                        /\ out' = [out EXCEPT ![tid] = o]
                        /\ UNCHANGED satisfied
    /\ UNCHANGED <<config, currentJobs, jobLock, pending, macros>>

\* ------------------------------------------------------------ rule files
\* The recipes that are given to every rule of a file.
Recipes ==
    { << <<"touch", "$(@)">> >>,
      << <<"@", "-", "cc", "$(<)">>, <<"touch", "$(@)">> >>,
      << <<"touch", "$(@)">>, <<"-", "cc", "$(^)", "$@">> >>,
      << <<" ", "-", "@", "cc">> >> }

\* The rule files that are built: the prerequisite list of every rule, the
\* names whose files may be there before the run, and the recipes the file
\* is written with.
Vee == [deps |-> [a |-> <<"b", "c">>, b |-> <<"c">>, c |-> <<>>],
        files |-> {"a", "c"}, recipes |-> Recipes]
Diamond == [deps |-> [a |-> <<"b", "c">>, b |-> <<"d">>, c |-> <<"d">>,
                      d |-> <<>>],
            files |-> {}, recipes |-> { << <<"touch", "$(@)">> >> }]
Chain == [deps |-> [a |-> <<"b">>, b |-> <<"c">>], files |-> {"a", "b", "c"},
          recipes |-> Recipes]
Single == [deps |-> [a |-> <<"b">>], files |-> {"a", "b"},
           recipes |-> Recipes]
Cycle == [deps |-> [a |-> <<"b">>, b |-> <<"a">>], files |-> {"a", "b"},
          recipes |-> Recipes]
NoRules == [deps |-> [x \in {} |-> <<>>], files |-> {"a"},
            recipes |-> {<<>>}]

Shapes == {Vee, Diamond, Chain, Single, Cycle, NoRules}

\* The .PHONY lines: <<>> stands for a file without one.
PhonyLists == {<<>>, <<"b">>}

\* The settings of a run: the defaults (lines 52, 58 and errorUtil.py line
\* 13), and each of setStopOnError(False), setSilent(True) and
\* setJustPrint(True), the first two also together.
Modes ==
    { [stop |-> TRUE, silent |-> FALSE, print |-> FALSE],
      [stop |-> FALSE, silent |-> FALSE, print |-> FALSE],
      [stop |-> TRUE, silent |-> TRUE, print |-> FALSE],
      [stop |-> FALSE, silent |-> TRUE, print |-> FALSE],
      [stop |-> TRUE, silent |-> FALSE, print |-> TRUE] }

MkDB(deps, recipe, phony) ==
    [x \in DOMAIN deps \cup (IF phony = <<>> THEN {} ELSE {PhonyKey}) |->
        IF x = PhonyKey THEN [deps |-> phony, cmds |-> <<>>]
        ELSE [deps |-> deps[x], cmds |-> recipe]]

\* The state in which runMakefile calls satisfyDependencies (line 1067).
Started ==
    /\ fs0 = fs
    /\ currentJobs = 1
    /\ jobLock = {}
    /\ pending = [x \in {} |-> {}]
    /\ macros = [x \in {} |-> <<>>]
    /\ thr = [x \in Threads |->
                IF x = Main THEN [st |-> "run", stack |-> <<NewFrame(goal)>>]
                ELSE Idle]
    /\ satisfied = <<>>
    /\ out = [x \in Threads |-> <<>>]
    /\ answer = <<>>
    /\ call = [fn |-> "runMakefile"]

Init ==
    /\ goal = "a"
    /\ \E shape \in Shapes, phony \in PhonyLists :
        /\ \E recipe \in shape.recipes :
              targets = MkDB(shape.deps, recipe, phony)
        /\ fs \in [Names -> 0..MaxTime]
        /\ \A x \in Names \ shape.files : fs[x] = 0
    /\ maxJobs \in 1..MaxBudget
    /\ \E mode \in Modes :
        /\ stopOnError = mode.stop
        /\ silent = mode.silent
        /\ justPrint = mode.print
    /\ Started

Next ==
    \E tid \in Threads :
        \/ Enter(tid)
        \/ Loop(tid)
        \/ Acquire(tid)
        \/ Test(tid)
        \/ Inc(tid)
        \/ MkThread(tid)
        \/ Start(tid)
        \/ Join(tid)
        \/ Clear(tid)
        \/ Acquire2(tid)
        \/ Dec(tid)
        \/ Auto(tid)
        \/ Cmd(tid)
        \/ Run(tid)

Spec == Init /\ [][Next]_vars

\* ------------------------------------------------ the scheduler, wide budget
\* The smallest budget with which two workers can both pass the test of
\* line 546: the main thread counts as one job, the two workers make three,
\* and each of them needs room for one more.
WideBudget == MaxBudget + 2

\* runMakefile on the diamond a: b c / b: d / c: d with nothing built yet.
WideInit ==
    /\ goal = "a"
    /\ \E recipe \in Diamond.recipes :
          targets = MkDB(Diamond.deps, recipe, <<>>)
    /\ fs = [x \in Names |-> 0]
    /\ maxJobs = WideBudget
    /\ \E mode \in Modes :
        /\ stopOnError = mode.stop
        /\ silent = mode.silent
        /\ justPrint = mode.print
    /\ Started

SpecWide == WideInit /\ [][Next]_vars

\* ------------------------------------------------ the scheduler, sequential
\* a: b c / b: d / c: (no prerequisites): a target without prerequisites
\* that is built after one that has some.
Fork == [deps |-> [a |-> <<"b", "c">>, b |-> <<"d">>, c |-> <<>>],
         files |-> {"c", "d"}, recipes |-> Recipes]

\* runMakefile with the default budget of one job (line 54).
SeqInit ==
    /\ goal = "a"
    /\ \E shape \in {Fork, Vee, Chain}, phony \in PhonyLists :
        /\ \E recipe \in shape.recipes :
              targets = MkDB(shape.deps, recipe, phony)
        /\ fs \in [Names -> 0..MaxTime]
        /\ \A x \in Names \ shape.files : fs[x] = 0
    /\ maxJobs = 1
    /\ \E mode \in Modes :
        /\ stopOnError = mode.stop
        /\ silent = mode.silent
        /\ justPrint = mode.print
    /\ Started

\* With a budget of one job the test of line 546 fails every time: no
\* thread is made, and the calling thread takes the steps that are left.
SeqNext ==
    \/ Enter(Main)
    \/ Loop(Main)
    \/ Acquire(Main)
    \/ Test(Main)
    \/ Auto(Main)
    \/ Cmd(Main)
    \/ Run(Main)

SpecSeq == SeqInit /\ [][SeqNext]_vars

\* ------------------------------------------------- the resolver on its own
\* prepareGenerateTarget(goal) on rule databases over three names: every
\* name has no rule or a rule with up to two distinct prerequisites.
ResolveNames == {"a", "b", "c"}

DepLists ==
    {<<>>} \cup {<<x>> : x \in ResolveNames}
           \cup {p \in {<<x, y>> : x \in ResolveNames, y \in ResolveNames} :
                    p[1] # p[2]}

ResolvePhony == {<<>>, <<"a">>, <<"b">>}

ResolveInit ==
    /\ goal = "a"
    /\ \E S \in SUBSET ResolveNames, phony \in ResolvePhony :
        \E deps \in [S -> DepLists] : targets = MkDB(deps, <<>>, phony)
    /\ fs \in [Names -> 0..MaxTime]
    /\ \A x \in Names \ ResolveNames : fs[x] = 0
    /\ fs0 = fs
    /\ maxJobs = 1
    /\ stopOnError \in BOOLEAN
    /\ silent = FALSE
    /\ justPrint = FALSE
    /\ currentJobs = 1
    /\ jobLock = {}
    /\ pending = [x \in {} |-> {}]
    /\ macros = [x \in {} |-> <<>>]
    /\ thr = [x \in Threads |-> Idle]
    /\ satisfied = <<>>
    /\ out = [x \in Threads |-> <<>>]
    /\ answer = <<>>
    /\ call = [fn |-> "prepareGenerateTarget"]

Resolve ==
    /\ answer = <<>>
    /\ answer' = <<PrepareGenerateTarget(goal, {}, targets, fs, stopOnError)>>
    /\ UNCHANGED <<targets, fs, fs0, goal, maxJobs, stopOnError, silent,
                   justPrint, currentJobs, jobLock, pending, macros, thr,
                   satisfied, out, call>>

SpecResolve == ResolveInit /\ [][Resolve]_vars

\* ------------------------------------------------- the macro processor
\* expandAndDefineMacros and expandMacroUsages, each called on its own.
\* Files of definitions: up to MaxLines lines that define X or Y, read with
\* an empty table or with one that defines X (a default, the environment).
DefLines ==
    {<<"X", op, "a">> : op \in AssignOps}
    \cup {<<"X", op, "$(Z)">> : op \in AssignOps \ {":="}}
    \cup {<<"X", "=">>, <<"X", "+=">>, <<"X", "=", "$(Y)">>,
          <<"Y", "=", "$(X)">>, <<"Y", ":=", "$(X)">>, <<"Y", "+=", "a">>,
          <<"Y", "?=", "a">>}

\* The two settings of expandUndefinedMacrosTo: None, and the empty text
\* MakeUtil configures.
Defaults == {<<>>, << <<>> >>}

NoMacros == [x \in {} |-> <<>>]

\* Files with one conditional: an if / else-if chain of up to MaxArms
\* conditions, with or without a final else, where one branch may hold a
\* nested conditional.  Branch i defines the name LeafName(i), sets X to
\* that name and holds the line "LeafName(i):"; the branches of the nested
\* conditional come after those of the chain.
LeafNames == <<"L1", "L2", "L3", "L4", "L5", "L6", "L7", "L8">>
LeafName(i) == LeafNames[i]

Conditions(names) == {<<kw, n>> : kw \in ConditionalStart, n \in names}

LeafDefs(i) == << <<LeafName(i), "=", "a">>, <<"X", ":=", LeafName(i)>> >>

LeafText(i) == <<LeafName(i), ":">>

Leaf(i) == Append(LeafDefs(i), LeafText(i))

\* The nested conditional of branch k: its branches are numbered b and b+1.
Nested(nest, b) ==
    IF nest = <<>> THEN <<>>
    ELSE <<nest[1].cond>> \o Leaf(b)
         \o (IF nest[1].hasElse THEN << <<"else">> >> \o Leaf(b + 1)
             ELSE <<>>)
         \o << <<"endif">> >>

\* Branch i of a block: its definitions, the nested conditional if it is
\* the branch that holds one, and its line of text.
Branch(block, i) ==
    LeafDefs(i)
    \o (IF block.nestAt = i
        THEN Nested(block.nest, Len(block.arms) + 2) ELSE <<>>)
    \o <<LeafText(i)>>

RECURSIVE RenderArms(_, _)
RenderArms(block, i) ==
    IF i > Len(block.arms) THEN <<>>
    ELSE <<(IF i = 1 THEN <<>> ELSE <<"else">>) \o block.arms[i]>>
         \o Branch(block, i) \o RenderArms(block, i + 1)

\* The text of a block, followed by one more line.
Render(block) ==
    RenderArms(block, 1)
    \o (IF block.hasElse
        THEN << <<"else">> >> \o Branch(block, Len(block.arms) + 1)
        ELSE <<>>)
    \o << <<"endif">>, <<"end", ":">> >>

\* The nested conditional of a block: none, or one with or without else.
Nests ==
    {<<>>} \cup {<<[cond |-> c, hasElse |-> e]>> :
                    c \in Conditions({"Z", "L1", "L2"}), e \in BOOLEAN}

WellFormed(block) ==
    /\ block.nestAt <= Len(block.arms) + (IF block.hasElse THEN 1 ELSE 0)
    /\ block.nestAt = 0 <=> block.nest = <<>>

\* A call on a file of definitions, and a call on a file with a block.
DefCall(f, d, m) ==
    [fn |-> "expandAndDefineMacros", contents |-> f, macros |-> m,
     default |-> d, block |-> <<>>]

BlockCall(b, m) ==
    [fn |-> "expandAndDefineMacros", contents |-> Render(b), macros |-> m,
     default |-> << <<>> >>, block |-> <<b>>]

Tables == {NoMacros, [x \in {"X"} |-> <<"a">>]}

MacroInit ==
    /\ \/ \E n \in 1..MaxLines :
             \E f \in [1..n -> DefLines], d \in Defaults, m \in Tables :
                 call = DefCall(f, d, m)
       \/ \E n \in 1..MaxArms, hasElse \in BOOLEAN, nestAt \in 0..(MaxArms + 1) :
             \E arms \in [1..n -> Conditions({"X", "Z"})], nest \in Nests :
                 LET b == [arms |-> arms, hasElse |-> hasElse,
                           nestAt |-> nestAt, nest |-> nest]
                 IN  /\ WellFormed(b)
                     /\ \E m \in Tables : call = BlockCall(b, m)
    /\ stopOnError = FALSE
    /\ goal = "a"
    /\ targets = MkDB(NoMacros, <<>>, <<>>)
    /\ fs = [x \in Names |-> 0]
    /\ fs0 = fs
    /\ maxJobs = 1
    /\ silent = FALSE
    /\ justPrint = FALSE
    /\ currentJobs = 1
    /\ jobLock = {}
    /\ pending = [x \in {} |-> {}]
    /\ macros = call.macros
    /\ goal = "a"
    /\ thr = [x \in Threads |-> Idle]
    /\ satisfied = <<>>
    /\ out = [x \in Threads |-> <<>>]
    /\ answer = <<>>

\* runMakefile, lines 1054-1055: the text of the file goes through
\* expandAndDefineMacros, which returns the text and the table.
ReadMakefile ==
    /\ answer = <<>>
    /\ call.fn = "expandAndDefineMacros"
    /\ answer' = <<ExpandAndDefineMacros(call.contents, macros, call.default,
                                         stopOnError)>>
    /\ macros' = answer'[1].macros
    /\ UNCHANGED <<targets, fs, fs0, goal, maxJobs, stopOnError, silent,
                   justPrint, currentJobs, jobLock, pending, thr, satisfied,
                   out, call>>

SpecMacros == MacroInit /\ [][ReadMakefile]_vars

\* ------------------------------------------------ functions on their own
\* What a pattern-rule line parses to (lines 228-234), with a recipe that
\* names the line; at is its place among the keys of the database.
PatternRule(key, at) ==
    [generates |-> CASE key = "a%.o: %.c" -> <<"a%.o">>
                     [] key = "a%a.o: %.c" -> <<"a%a.o">>
                     [] key = "a.o %.x: %.c" -> <<"a.o", "%.x">>
                     [] key = "%.x a.o: %.c" -> <<"%.x", "a.o">>
                     [] key \in {"%.o: %.c", "%.o: %.s", "%.o: %.c %.h",
                                 "%.o: %.s %.h", "%.o: %.c x.h"} -> <<"%.o">>
                     [] OTHER -> <<"%.x">>,
     deps |-> CASE key \in {"%.o: %.c", "%.x: %.c"} \cup MatchLines
                       -> <<"%.c">>
                [] key \in {"%.o: %.s", "%.x: %.s"} -> <<"%.s">>
                [] key \in {"%.o: %.c %.h", "%.x: %.c %.h"} -> <<"%.c", "%.h">>
                [] key \in {"%.o: %.s %.h", "%.x: %.s %.h"} -> <<"%.s", "%.h">>
                [] key \in {"%.o: %.c x.h", "%.x: %.c x.h"} -> <<"%.c", "x.h">>,
     cmds |-> << <<"echo", key>> >>,
     at |-> at]

\* A database of pattern rules, in the order given, with or without a
\* .PHONY entry.
PatternDB(keys, phony) ==
    [k \in Range(keys) \cup (IF phony = <<>> THEN {} ELSE {PhonyKey}) |->
        IF k = PhonyKey THEN [deps |-> phony, cmds |-> <<>>]
        ELSE PatternRule(k, CHOOSE i \in DOMAIN keys : keys[i] = k)]

\* The variables a function called on its own leaves alone.
Aside ==
    /\ fs0 = fs
    /\ maxJobs = 1
    /\ silent = FALSE
    /\ justPrint = FALSE
    /\ currentJobs = 1
    /\ jobLock = {}
    /\ pending = [x \in {} |-> {}]
    /\ thr = [x \in Threads |-> Idle]
    /\ satisfied = <<>>
    /\ out = [x \in Threads |-> <<>>]
    /\ answer = <<>>

\* generateRecipeFor("a.o") on databases of up to MaxRules pattern rules.
RecipeInit ==
    /\ call = [fn |-> "generateRecipeFor", target |-> "a.o"]
    /\ \E n \in 1..MaxRules, phony \in {<<>>, <<"a.h">>} :
          \E keys \in [1..n -> PatternLines] :
              /\ \A i, j \in 1..n : i # j => keys[i] # keys[j]
              /\ targets = PatternDB(keys, phony)
    /\ fs \in [{"a.c", "a.s", "a.h", "x.h"} -> 0..1]
    /\ goal = "a.o"
    /\ stopOnError = FALSE
    /\ macros = NoMacros
    /\ Aside

\* The rule lines of a file: the text of the line and the names to the
\* left of its colon.
RuleLines ==
    {[line |-> "x: d", generates |-> <<"x">>],
     [line |-> "y: d", generates |-> <<"y">>],
     [line |-> "x y: d", generates |-> <<"x", "y">>],
     [line |-> ".PHONY: x", generates |-> <<PhonyKey>>],
     [line |-> "%.o: %.c", generates |-> <<"%.o">>]}

\* runMakefile without a goal, on files of up to MaxRules rule lines.
GoalInit ==
    /\ \E n \in 1..MaxRules : \E lines \in [1..n -> RuleLines] :
          call = [fn |-> "getTargetActions", lines |-> lines]
    /\ goal = ""
    /\ targets = PatternDB(<<>>, <<>>)
    /\ fs = [x \in Names |-> 0]
    /\ stopOnError = FALSE
    /\ macros = NoMacros
    /\ Aside

\* expandMacroUsages on lines of one or two tokens, with no default
\* configured, with the empty one and with the text d.
ExpandInit ==
    /\ macros \in {NoMacros, [x \in {"X"} |-> <<"a">>],
                   [x \in {"X"} |-> <<"$(Z)">>],
                   [x \in {"X", "Y"} |-> IF x = "X" THEN <<>> ELSE <<"$(X)">>]}
    /\ \E n \in 1..2 :
          \E line \in [1..n -> {"a", "$(X)", "$(Y)", "$(Z)"}],
             default \in Defaults \cup {<< <<"d">> >>} :
              call = [fn |-> "expandMacroUsages", line |-> line,
                      default |-> default, macros |-> macros]
    /\ stopOnError \in BOOLEAN
    /\ goal = "a"
    /\ targets = PatternDB(<<>>, <<>>)
    /\ fs = [x \in Names |-> 0]
    /\ Aside

\* The text of a list of tokens with one blank between them.
RECURSIVE JoinSpace(_)
JoinSpace(tokens) ==
    IF Len(tokens) <= 1 THEN tokens
    ELSE <<Head(tokens), " ">> \o JoinSpace(Tail(tokens))

\* $(word n,text) on texts of up to MaxWords tokens, with X defined as the
\* two words "b a".
WordInit ==
    /\ \E n \in 0..MaxWords :
          \E tokens \in [1..n -> {"a", "b", "$(X)"}],
             index \in {"0", "1", "2", "3", "x"} :
              call = [fn |-> "getWordOf", index |-> <<index>>,
                      text |-> JoinSpace(tokens)]
    /\ macros = [x \in {"X"} |-> <<"b", " ", "a">>]
    /\ stopOnError \in BOOLEAN
    /\ goal = "a"
    /\ targets = PatternDB(<<>>, <<>>)
    /\ fs = [x \in Names |-> 0]
    /\ Aside

\* $(patsubst pattern,replacement,text) on texts of up to MaxWords words,
\* each word, pattern and replacement a sequence of characters.
PatSubstInit ==
    /\ \E n \in 1..MaxWords :
          \E words \in [1..n -> {<<"a">>, <<"x">>, <<"a", "x">>, <<"x", "a">>,
                                 <<"a", "a">>, <<"a", "x", "a">>}],
             replaceText \in {<<"%">>, <<"a", "%">>, <<"%", "a">>,
                              <<"a", "%", "a">>, <<"a">>, <<"a", "x">>},
             replaceWith \in {<<"%">>, <<"b", "%">>, <<"%", "b">>,
                              <<"b", "%", "b">>, <<"b">>} :
              call = [fn |-> "patsubst", replaceText |-> replaceText,
                      replaceWith |-> replaceWith, words |-> words]
    /\ macros = NoMacros
    /\ stopOnError = FALSE
    /\ goal = "a"
    /\ targets = PatternDB(<<>>, <<>>)
    /\ fs = [x \in Names |-> 0]
    /\ Aside

\* $(error text), $(warning text) and $(info text) on texts of one or two
\* tokens, with X defined and Z not, with and without a default for
\* undefined names.
PrintInit ==
    /\ macros = [x \in {"X"} |-> <<"a">>]
    /\ \E n \in 1..2 :
          \E text \in [1..n -> {"a", "$(X)", "$(Z)"}],
             cmd \in {"error", "warning", "info"},
             default \in Defaults :
              call = [fn |-> "makeCmdPrint", cmd |-> cmd, text |-> text,
                      default |-> default]
    /\ stopOnError \in BOOLEAN
    /\ goal = "a"
    /\ targets = PatternDB(<<>>, <<>>)
    /\ fs = [x \in Names |-> 0]
    /\ Aside

\* The tables a function with a private table is called with: X is
\* defined, F is a macro that uses its arguments, and v and 1 are defined
\* in some of them and undefined in the others.
OuterTables ==
    {[x \in {"X", "F"} \cup extra |->
         CASE x = "X" -> <<"c">>
           [] x = "F" -> <<"$(1)", "$(2)", "$(0)", "$(X)">>
           [] OTHER -> <<"d">>] : extra \in SUBSET {"v", "1"}}

\* $(foreach name,list,text) with the names v and X, lists of up to
\* MaxWords words and texts of one or two tokens.
ForeachInit ==
    /\ macros \in OuterTables
    /\ \E n \in 0..MaxWords, k \in 1..2 :
          \E words \in [1..n -> {"a", "b", "$(X)"}],
             varname \in {"v", "X"},
             text \in [1..k -> {"$(v)", "$(X)", "a"}] :
              call = [fn |-> "makeCmdForeach",
                      args |-> << <<varname>>, JoinSpace(words), text >>,
                      macros |-> macros]
    /\ stopOnError = FALSE
    /\ goal = "a"
    /\ targets = PatternDB(<<>>, <<>>)
    /\ fs = [x \in Names |-> 0]
    /\ Aside

\* $(call name,argument,...) with the macro F, an undefined name and a
\* reference to one, and up to MaxWords arguments.
CallInit ==
    /\ macros \in OuterTables
    /\ \E n \in 0..MaxWords :
          \E arguments \in [1..n -> {<<"a">>, <<"$(X)">>, <<"$(1)">>}],
             varname \in {"F", "Z", "$(Z)", "X"} :
              call = [fn |-> "makeCmdCall",
                      args |-> << <<varname>> >> \o arguments,
                      macros |-> macros]
    /\ stopOnError = FALSE
    /\ goal = "a"
    /\ targets = PatternDB(<<>>, <<>>)
    /\ fs = [x \in Names |-> 0]
    /\ Aside

\* expandMacroUsages on recipe lines of one or two tokens, with the
\* automatic variables of a target a with the prerequisites b and c in the
\* table.
RecipeLineInit ==
    /\ macros = SetAutomatic(NoMacros, "a", <<>>, <<"b", "c">>)
    /\ \E n \in 1..2 :
          \E line \in [1..n -> {"cc", "$@", "$<", "$^", "$(@)", "$(<)", "$(^)",
                                "$$"}],
             default \in Defaults :
              call = [fn |-> "expandMacroUsages", line |-> line,
                      default |-> default, macros |-> macros]
    /\ stopOnError = FALSE
    /\ goal = "a"
    /\ targets = PatternDB(<<>>, <<>>)
    /\ fs = [x \in Names |-> 0]
    /\ Aside

\* The rule lines of a file with recipes: the names to the left of the
\* colon and the prerequisites to the right of it.
RuleHeads ==
    {[rule |-> TRUE, line |-> "x: p", generates |-> <<"x">>,
      dependsOn |-> <<"p">>],
     [rule |-> TRUE, line |-> "x: q r", generates |-> <<"x">>,
      dependsOn |-> <<"q", "r">>],
     [rule |-> TRUE, line |-> "y: p", generates |-> <<"y">>,
      dependsOn |-> <<"p">>],
     [rule |-> TRUE, line |-> "x y: q", generates |-> <<"x", "y">>,
      dependsOn |-> <<"q">>]}

\* The recipe lines below the i-th rule line of a file: none, one or two.
RecipeTexts(i) ==
    LET texts == << <<"e1", "e2">>, <<"l1", "l2">>, <<"m1", "m2">>,
                    <<"n1", "n2">> >>[i]
    IN  {<<>>, <<texts[1]>>, texts}

\* The lines of a file of the given rule lines and their recipes.
RECURSIVE FileOf(_, _, _)
FileOf(heads, recipes, i) ==
    IF i > Len(heads) THEN <<>>
    ELSE <<heads[i]>>
            \o [j \in DOMAIN recipes[i] |->
                   [rule |-> FALSE, text |-> recipes[i][j]]]
            \o FileOf(heads, recipes, i + 1)

\* getTargetActions on files of up to MaxRules rule lines, each with up to
\* two recipe lines.
RulesInit ==
    /\ \E n \in 1..MaxRules : \E heads \in [1..n -> RuleHeads] :
          \E k \in [1..n -> 0..2] :
              call = [fn |-> "getTargetActions.result", heads |-> heads,
                      recipes |-> [i \in 1..n |->
                                      CHOOSE r \in RecipeTexts(i) : Len(r) = k[i]]]
    /\ goal = "x"
    /\ targets = PatternDB(<<>>, <<>>)
    /\ fs = [x \in Names |-> 0]
    /\ stopOnError = FALSE
    /\ macros = NoMacros
    /\ Aside

\* generateRecipeFor("a.o") on databases of one or two pattern rules, the
\* rules of MatchLines among them.
MatchInit ==
    /\ call = [fn |-> "generateRecipeFor, one call", target |-> "a.o"]
    /\ \E n \in 1..2 :
          \E keys \in [1..n -> MatchLines \cup {"%.o: %.c", "%.x: %.c"}] :
              /\ \A i, j \in 1..n : i # j => keys[i] # keys[j]
              /\ targets = PatternDB(keys, <<>>)
    /\ fs \in [{"a.c", ".c"} -> 0..1]
    /\ goal = "a.o"
    /\ stopOnError = FALSE
    /\ macros = NoMacros
    /\ Aside

\* generateRecipeFor("a.o") called twice on a database of pattern rules,
\* with or without a rule a.o: x.h written in the file.
MemoInit ==
    /\ call = [fn |-> "generateRecipeFor, twice", target |-> "a.o"]
    /\ \E n \in 1..(MaxRules - 1), own \in BOOLEAN :
          \E keys \in [1..n -> PatternLines] :
              /\ \A i, j \in 1..n : i # j => keys[i] # keys[j]
              /\ targets =
                    [k \in Range(keys) \cup (IF own THEN {"a.o"} ELSE {}) |->
                        IF k = "a.o"
                        THEN [deps |-> <<"x.h">>, cmds |-> << <<"mine">> >>]
                        ELSE PatternRule(k, CHOOSE i \in DOMAIN keys :
                                                keys[i] = k)]
    /\ fs \in [{"a.c", "a.s", "a.h", "x.h"} -> 0..1]
    /\ goal = "a.o"
    /\ stopOnError = FALSE
    /\ macros = NoMacros
    /\ Aside

\* The characters of the lines given to stripComments, and the lines: up
\* to MaxChars characters (line 400 calls it without force).
Chars == {"a", "#", "\"", "'", "(", ")", "{", "}", "\\"}

StripInit ==
    /\ \E n \in 1..MaxChars :
          \E line \in [1..n -> Chars] :
              call = [fn |-> "stripComments", line |-> line, force |-> FALSE]
    /\ macros = NoMacros
    /\ stopOnError \in BOOLEAN
    /\ goal = "a"
    /\ targets = PatternDB(<<>>, <<>>)
    /\ fs = [x \in Names |-> 0]
    /\ Aside

CallsInit ==
    \/ RecipeInit \/ GoalInit \/ ExpandInit \/ WordInit \/ PatSubstInit
    \/ PrintInit \/ ForeachInit \/ CallInit \/ RecipeLineInit \/ RulesInit
    \/ StripInit \/ MemoInit \/ MatchInit

\* prepareGenerateTarget, lines 468-469: the call of generateRecipeFor.
GenerateRecipe ==
    /\ answer = <<>>
    /\ call.fn = "generateRecipeFor"
    /\ targets' = GenerateRecipeFor(call.target, targets, fs)
    /\ answer' = <<call.target \in DOMAIN targets'>>
    /\ UNCHANGED <<fs, fs0, goal, maxJobs, stopOnError, silent, justPrint,
                   currentJobs, jobLock, pending, macros, thr, satisfied,
                   out, call>>

\* runMakefile, lines 1057-1060: without a goal, the first of the names
\* getTargetActions returns is the goal.
DefaultGoal ==
    /\ answer = <<>>
    /\ call.fn = "getTargetActions"
    /\ answer' = <<TargetNames(call.lines, <<>>, <<>>)>>
    /\ goal' = IF goal = "" /\ Len(answer'[1]) > 0 THEN answer'[1][1] ELSE goal
    /\ UNCHANGED <<targets, fs, fs0, maxJobs, stopOnError, silent, justPrint,
                   currentJobs, jobLock, pending, macros, thr, satisfied,
                   out, call>>

\* expandMacroUsages, lines 315-384: it returns the text and assigns to
\* nothing in the table.
ExpandLine ==
    /\ answer = <<>>
    /\ call.fn = "expandMacroUsages"
    /\ answer' = <<ExpandUsages(call.line, macros, call.default, stopOnError,
                                MaxExpand)>>
    /\ UNCHANGED <<targets, fs, fs0, goal, maxJobs, stopOnError, silent,
                   justPrint, currentJobs, jobLock, pending, macros, thr,
                   satisfied, out, call>>

\* $(word n,text): expandMacroUsages calls getWordOf (lines 361-364).
Word ==
    /\ answer = <<>>
    /\ call.fn = "getWordOf"
    /\ answer' = <<GetWordOf(call.index, call.text, macros, << <<>> >>,
                             stopOnError)>>
    /\ UNCHANGED <<targets, fs, fs0, goal, maxJobs, stopOnError, silent,
                   justPrint, currentJobs, jobLock, pending, macros, thr,
                   satisfied, out, call>>

\* makeCmdSubst with patternBased, lines 705-712: the three arguments are
\* expanded and given to patsubst.
MakeCmdSubst ==
    /\ answer = <<>>
    /\ call.fn = "patsubst"
    /\ answer' = <<PatSubst(ExpandMacroUsages(call.replaceText, macros),
                            ExpandMacroUsages(call.replaceWith, macros),
                            [i \in DOMAIN call.words |->
                                ExpandMacroUsages(call.words[i], macros)])>>
    /\ UNCHANGED <<targets, fs, fs0, goal, maxJobs, stopOnError, silent,
                   justPrint, currentJobs, jobLock, pending, macros, thr,
                   satisfied, out, call>>

\* $(error text), $(warning text), $(info text): expandMacroUsages calls
\* makeCmdPrint (lines 361-364).
Show ==
    /\ answer = <<>>
    /\ call.fn = "makeCmdPrint"
    /\ answer' = <<MakeCmdPrint(call.cmd, call.text, macros, call.default,
                                stopOnError)>>
    /\ UNCHANGED <<targets, fs, fs0, goal, maxJobs, stopOnError, silent,
                   justPrint, currentJobs, jobLock, pending, macros, thr,
                   satisfied, out, call>>

\* $(foreach name,list,text): expandMacroUsages calls makeCmdForeach with
\* the table it was given (lines 361-364); the table is the caller's object.
Foreach ==
    /\ answer = <<>>
    /\ call.fn = "makeCmdForeach"
    /\ answer' = <<MakeCmdForeach(call.args, macros, << <<>> >>, stopOnError)>>
    /\ macros' = answer'[1].macros
    /\ UNCHANGED <<targets, fs, fs0, goal, maxJobs, stopOnError, silent,
                   justPrint, currentJobs, jobLock, pending, thr, satisfied,
                   out, call>>

\* $(call name,argument,...): expandMacroUsages calls makeCmdCall with the
\* table it was given.
CallMacro ==
    /\ answer = <<>>
    /\ call.fn = "makeCmdCall"
    /\ answer' = <<MakeCmdCall(call.args, macros, << <<>> >>, stopOnError)>>
    /\ macros' = answer'[1].macros
    /\ UNCHANGED <<targets, fs, fs0, goal, maxJobs, stopOnError, silent,
                   justPrint, currentJobs, jobLock, pending, thr, satisfied,
                   out, call>>

\* runMakefile, line 1057: the database getTargetActions returns is the
\* one the build works on.
ReadRules ==
    /\ answer = <<>>
    /\ call.fn = "getTargetActions.result"
    /\ targets' = TargetActions(FileOf(call.heads, call.recipes, 1),
                                PatternDB(<<>>, <<>>), <<>>)
    /\ answer' = <<DOMAIN targets'>>
    /\ UNCHANGED <<fs, fs0, goal, maxJobs, stopOnError, silent, justPrint,
                   currentJobs, jobLock, pending, macros, thr, satisfied,
                   out, call>>

\* expandAndDefineMacros, line 400: each line goes through stripComments.
StripLine ==
    /\ answer = <<>>
    /\ call.fn = "stripComments"
    /\ answer' = <<StripComments(call.line, call.force, stopOnError)>>
    /\ UNCHANGED <<targets, fs, fs0, goal, maxJobs, stopOnError, silent,
                   justPrint, currentJobs, jobLock, pending, macros, thr,
                   satisfied, out, call>>

\* One call of generateRecipeFor, the first or the second for the same
\* target: answer takes what it returned and the database it was given.
GenerateMemo ==
    /\ call.fn = "generateRecipeFor, twice"
    /\ Len(answer) < 2
    /\ targets' = GenerateRecipeFor(call.target, targets, fs)
    /\ answer' = Append(answer, [val |-> call.target \in DOMAIN targets',
                                 given |-> targets])
    /\ UNCHANGED <<fs, fs0, goal, maxJobs, stopOnError, silent, justPrint,
                   currentJobs, jobLock, pending, macros, thr, satisfied,
                   out, call>>

\* generateRecipeFor, lines 344-440, with the exception it may end in:
\* an exception leaves the database as it was.
GenerateMatch ==
    /\ call.fn = "generateRecipeFor, one call"
    /\ answer = <<>>
    /\ targets' = IF Raised(call.target, targets) # "" THEN targets
                  ELSE GenerateRecipeFor(call.target, targets, fs)
    /\ answer' = <<[val |-> call.target \in DOMAIN targets',
                    raised |-> Raised(call.target, targets)]>>
    /\ UNCHANGED <<fs, fs0, goal, maxJobs, stopOnError, silent, justPrint,
                   currentJobs, jobLock, pending, macros, thr, satisfied,
                   out, call>>

CallsNext ==
    \/ GenerateRecipe \/ DefaultGoal \/ ExpandLine \/ Word \/ MakeCmdSubst
    \/ Show \/ Foreach \/ CallMacro \/ ReadRules \/ StripLine
    \/ GenerateMemo \/ GenerateMatch

SpecCalls == CallsInit /\ [][CallsNext]_vars

\* ------------------------------------------------------------ runMakefile
\* runMakefile on the text of a file, step by step: the definition
\* processor, handleIncludes, getTargetActions, the overrides, and
\* satisfyDependencies with a budget of one job in just-print mode.
\* answer collects what the steps return.

\* Dict assignment for every name of overrideMacros (lines 1063-1065).
Overlay(table, overrideMacros) ==
    [x \in DOMAIN table \cup DOMAIN overrideMacros |->
        IF x \in DOMAIN overrideMacros THEN overrideMacros[x] ELSE table[x]]

\* getTargetActions, lines 200-231, on a line of tokens: a recipe line
\* gives its text without the lead character; another line with a colon
\* gives the names before it and the names after it.  (The rule lines of
\* these files hold no wildcard; their text is no key of the database.)
StartsRecipe(line) == StartsWith(line, "\t")

IsRuleLine(line) == ~StartsRecipe(line) /\ ":" \in Range(line)

LineOf(line) ==
    IF StartsRecipe(line) THEN [rule |-> FALSE, text |-> Tail(line)]
    ELSE LET sepIndex == IndexOf(line, ":")
         IN  [rule |-> TRUE, line |-> "",
              generates |-> SelectSeq(SubSeq(line, 1, sepIndex - 1),
                                      LAMBDA tok : tok \notin {" ", ""}),
              dependsOn |-> SelectSeq(SubSeq(line, sepIndex + 1, Len(line)),
                                      LAMBDA tok : tok \notin {" ", ""})]

\* Lines 200-211: empty lines and lines without a colon are passed over.
RECURSIVE LinesOfFile(_)
LinesOfFile(text) ==
    IF text = <<>> THEN <<>>
    ELSE (IF StartsRecipe(Head(text)) \/ IsRuleLine(Head(text))
          THEN <<LineOf(Head(text))>> ELSE <<>>)
         \o LinesOfFile(Tail(text))

\* The definitions of a rule file and the recipes of its rule: a reference,
\* a line in the form of an assignment, and a reference to a name whose
\* value holds a reference.
FileDefs ==
    {<<"X", "=", "e">>, <<"X", ":=", "l">>, <<"X", "+=", "m">>,
     <<"Y", "=", "$(X)">>, <<"Y", ":=", "$(X)">>}

FileRecipes ==
    { << <<"\t", "echo", "$(X)">> >>,
      << <<"\t", "echo", "$(X)">>, <<"\t", "X", "=", "in">> >>,
      << <<"\t", "Y", ":=", "$(X)">>, <<"\t", "$(Y)">> >> }

\* The rule lines at the end of a file: none, and a rule for b whose
\* prerequisites hold a marker pair or a reference.
FileRules ==
    {<<>>, << <<"b", ":", "$$X">> >>, << <<"b", ":", "$$", "$(X)">> >>,
     << <<"b", ":", "$(X)", "p">> >>}

\* A file: up to one definition, the rule a: c with its recipe, and below
\* it either up to MaxDefs definitions or one more rule line; the tables
\* of defaults and of overrides define nothing or X.  Of the files named
\* only c, which has no rule, is there.
FileInit ==
    /\ \E n \in 0..1, k \in 0..MaxDefs :
          \E pre \in [1..n -> FileDefs], post \in [1..k -> FileDefs],
             recipe \in FileRecipes, rules \in FileRules,
             defaultMacros \in {NoMacros, [x \in {"X"} |-> <<"d">>]},
             overrideMacros \in {NoMacros, [x \in {"X"} |-> <<"o">>]} :
              /\ rules # <<>> => k = 0
              /\ call = [fn |-> "runMakefile",
                         contents |-> pre \o << <<"a", ":", "c">> >> \o recipe
                                         \o post \o rules,
                         defaultMacros |-> defaultMacros,
                         overrideMacros |-> overrideMacros]
    /\ goal = "a"
    /\ targets = [x \in {} |-> <<>>]
    /\ fs = [x \in Names |-> IF x = "c" THEN 1 ELSE 0]
    /\ stopOnError = FALSE
    /\ macros = call.defaultMacros
    /\ fs0 = fs
    /\ maxJobs = 1
    /\ silent = FALSE
    /\ justPrint = TRUE
    /\ currentJobs = 1
    /\ jobLock = {}
    /\ pending = [x \in {} |-> {}]
    /\ thr = [x \in Threads |-> Idle]
    /\ satisfied = <<>>
    /\ out = [x \in Threads |-> <<>>]
    /\ answer = <<>>

\* Lines 1054-1055: the definition processor on the text of the file.
Define1 ==
    /\ call.fn = "runMakefile"
    /\ answer = <<>>
    /\ answer' = <<ExpandAndDefineMacros(call.contents, macros, << <<>> >>,
                                         stopOnError)>>
    /\ macros' = answer'[1].macros
    /\ UNCHANGED <<targets, fs, fs0, goal, maxJobs, stopOnError, silent,
                   justPrint, currentJobs, jobLock, pending, thr, satisfied,
                   out, call>>

\* Line 1056, handleIncludes lines 622-688 on a text without an include
\* line: the text the first pass returned (it ends with a line break, which
\* makes one more, empty line) goes through the definition processor again.
HandleIncludes ==
    /\ call.fn = "runMakefile"
    /\ Len(answer) = 1
    /\ answer' = Append(answer,
                        ExpandAndDefineMacros(Append(answer[1].result, <<>>),
                                              macros, << <<>> >>, stopOnError))
    /\ macros' = answer'[2].macros
    /\ UNCHANGED <<targets, fs, fs0, goal, maxJobs, stopOnError, silent,
                   justPrint, currentJobs, jobLock, pending, thr, satisfied,
                   out, call>>

\* Line 1057: getTargetActions on the text of the second pass.
GetTargetActions ==
    /\ call.fn = "runMakefile"
    /\ Len(answer) = 2
    /\ targets' = TargetActions(LinesOfFile(answer[2].result),
                                [x \in {} |-> <<>>], <<>>)
    /\ answer' = Append(answer, DOMAIN targets')
    /\ UNCHANGED <<fs, fs0, goal, maxJobs, stopOnError, silent, justPrint,
                   currentJobs, jobLock, pending, macros, thr, satisfied,
                   out, call>>

\* Lines 1062-1067: the overrides go into the table and
\* satisfyDependencies is called for the goal.
Satisfy ==
    /\ call.fn = "runMakefile"
    /\ Len(answer) = 3
    /\ macros' = Overlay(macros, call.overrideMacros)
    /\ thr' = [thr EXCEPT ![Main] = [st |-> "run",
                                     stack |-> <<NewFrame(goal)>>]]
    /\ answer' = Append(answer, macros')
    /\ UNCHANGED <<targets, fs, fs0, goal, maxJobs, stopOnError, silent,
                   justPrint, currentJobs, jobLock, pending, satisfied, out,
                   call>>

\* The scheduler steps below act once Satisfy has started the main thread;
\* config, which they leave alone, holds answer and call.
FileNext ==
    \/ Define1
    \/ HandleIncludes
    \/ GetTargetActions
    \/ Satisfy
    \/ Enter(Main)
    \/ Loop(Main)
    \/ Auto(Main)
    \/ Cmd(Main)
    \/ Run(Main)

SpecFile == FileInit /\ [][FileNext]_vars

\* ----------------------------------------------------------------- claims
\* The prerequisites a rule database gives a name (none without a rule).
Prereqs(t, db) == IF t \in DOMAIN db THEN Range(db[t].deps) ELSE {}

RECURSIVE ReachIn(_, _, _)
ReachIn(S, db, n) ==
    IF n = 0 THEN S
    ELSE ReachIn(S \cup UNION {Prereqs(x, db) : x \in S}, db, n - 1)

\* No name is among the prerequisites of its prerequisites, at any depth.
Acyclic(db) ==
    \A x \in Names : x \notin ReachIn(Prereqs(x, db), db, Cardinality(Names))

DeclaredPhony(t, db) == PhonyKey \in DOMAIN db /\ t \in Range(db[PhonyKey].deps)

Missing(t, files) == files[t] = 0

\* The staleness predicate as the specification words it, on an acyclic
\* database: phony, or missing, or a prerequisite that is phony, missing,
\* newer, or stale itself.
RECURSIVE Stale(_, _, _)
Stale(t, db, files) ==
    \/ DeclaredPhony(t, db)
    \/ Missing(t, files)
    \/ \E p \in Prereqs(t, db) :
          \/ DeclaredPhony(p, db)
          \/ Missing(p, files)
          \/ files[p] > files[t]
          \/ Stale(p, db, files)

\* C4 as claimed: on an acyclic rule database prepareGenerateTarget(T)
\* answers "needs building" exactly when T is stale, for every T.
C4_AnyTarget ==
    (answer # <<>> /\ Acyclic(targets))
        => (answer[1].need <=> Stale(goal, targets, fs))

\* C4: on an acyclic rule database, for a target T that has a rule,
\* prepareGenerateTarget(T) answers "needs building" exactly when T is phony,
\* or missing, or some prerequisite is phony, missing, newer than T or itself
\* stale; it reports no error and logs no warning.  A prerequisite of equal
\* modification time does not make T stale.
C4_RuledTarget ==
    (answer # <<>> /\ Acyclic(targets) /\ goal \in DOMAIN targets)
        => /\ answer[1].need <=> Stale(goal, targets, fs)
           /\ answer[1].err = <<>>
           /\ answer[1].warn = <<>>
           /\ ~answer[1].exit

\* A target found stale only through a prerequisite that is stale itself.
C4_Witness ==
    /\ answer # <<>>
    /\ Acyclic(targets)
    /\ goal \in DOMAIN targets
    /\ answer[1].need
    /\ ~DeclaredPhony(goal, targets)
    /\ ~Missing(goal, fs)
    /\ Prereqs(goal, targets) # {}
    /\ \A p \in Prereqs(goal, targets) :
          ~DeclaredPhony(p, targets) /\ ~Missing(p, fs) /\ fs[p] = fs[goal]

\* C5 as claimed: for the rules a: b and b: a with neither file there,
\* resolving a ends with exactly one circular-dependency warning.
C5_OneWarning ==
    ( /\ answer # <<>>
      /\ DOMAIN targets = {"a", "b"}
      /\ targets["a"].deps = <<"b">>
      /\ targets["b"].deps = <<"a">>
      /\ Missing("a", fs) /\ Missing("b", fs) )
        => Len(answer[1].warn) = 1

\* ------------------------------------------------------- claims: scheduler
Frames(tid) == Range(thr[tid].stack)

\* The lines a thread has executed (or, with justPrint, printed in their
\* place), in order.
IsLine(e) == e.k \in {"run", "print"}

\* The last recipe line of d has been executed by some thread.
Completed(d) ==
    \/ Cmds(d) = <<>>
    \/ \E tid \in Threads : \E p \in DOMAIN out[tid] :
          /\ IsLine(out[tid][p])
          /\ out[tid][p].t = d
          /\ out[tid][p].n = Len(Cmds(d))

Finished == thr[Main].st \in {"done", "dead"}

NoThreadDied == \A tid \in Threads : thr[tid].st # "dead"

\* C1 as claimed, on the runs in which no error has ended a thread: when the
\* first recipe line of a target starts executing, the last recipe line of
\* every direct prerequisite that the call judged to need building has been
\* executed (every call satisfies this for its own target, which gives the
\* recursive part).
C1_PrerequisitesDone ==
    NoThreadDied =>
        \A tid \in Threads :
            (At(tid, "run") /\ Top(tid).k = 1) =>
                \A d \in Top(tid).judged : Completed(d)

\* C2: the job counter never exceeds maxJobs; one satisfyDependencies call
\* never holds more than maxJobs - 1 workers of its own (the calling thread
\* is the job that the counter starts from); the budget test, the increment
\* and the decrement are made by the thread that holds jobLock, at most one
\* thread holds it, and between a test that passed and its increment the
\* counter is still below maxJobs.
C2_JobBudget ==
    /\ currentJobs >= 1
    /\ currentJobs <= maxJobs
    /\ Cardinality(jobLock) <= 1
    /\ \A tid \in Threads :
          /\ \A f \in Frames(tid) : Len(f.pendingJobs) <= maxJobs - 1
          /\ (At(tid, "test") \/ At(tid, "inc") \/ At(tid, "dec"))
                => jobLock = {tid}
          /\ At(tid, "inc") => currentJobs < maxJobs

\* The budget is used up while one thread holds the lock for its budget test
\* and another one waits for the lock.
C2_Witness ==
    /\ maxJobs > 1
    /\ currentJobs = maxJobs
    /\ \E t1 \in Threads, t2 \in Threads :
          /\ t1 # t2
          /\ At(t1, "test")
          /\ jobLock = {t1}
          /\ At(t2, "acquire")

\* The recipe lines the main thread has executed, as <<target, line number>>,
\* and the exit statuses they had.
RECURSIVE LinesOf(_)
LinesOf(log) ==
    IF log = <<>> THEN <<>>
    ELSE IF IsLine(Head(log))
    THEN <<<<Head(log).t, Head(log).n>>>> \o LinesOf(Tail(log))
    ELSE LinesOf(Tail(log))

RECURSIVE StatusesOf(_)
StatusesOf(log) ==
    IF log = <<>> THEN <<>>
    ELSE IF Head(log).k = "run"
    THEN <<Head(log).status>> \o StatusesOf(Tail(log))
    ELSE IF Head(log).k = "print" THEN <<0>> \o StatusesOf(Tail(log))
    ELSE StatusesOf(Tail(log))

\* The depth-first walk of the prerequisite lists, as a function of the rule
\* database, the files and the exit statuses of the commands alone.  A walk
\* is the files, the macro table, the lines executed, the exit statuses
\* still to come, and whether it goes on (it stops at an error that ends the
\* run, at the recursion limit, and where the statuses end).
RECURSIVE WalkTarget(_, _, _)
RECURSIVE WalkDeps(_, _, _, _)
RECURSIVE WalkLines(_, _, _)

Stopped(s) == [s EXCEPT !.on = FALSE]

WalkTarget(t, depth, s) ==
    IF ~s.on THEN s
    ELSE LET r == PrepareGenerateTarget(t, {}, targets, s.fs, stopOnError)
             path == FindFile(t, s.fs)
             paths == DepPaths(Deps(t), targets, s.fs)
         IN  IF r.exit THEN Stopped(s)
             ELSE IF ~r.need THEN s
             ELSE LET s1 == WalkDeps(t, 1, depth, s)
                  IN  IF ~s1.on THEN s1
                      ELSE WalkLines(t, 1,
                              [s1 EXCEPT !.mac = SetAutomatic(@, t, path, paths)])

WalkDeps(t, i, depth, s) ==
    IF ~s.on \/ i > Len(Deps(t)) THEN s
    ELSE LET dep == Deps(t)[i]
             r == PrepareGenerateTarget(dep, {}, targets, s.fs, stopOnError)
         IN  IF r.exit THEN Stopped(s)
             ELSE IF ~r.need THEN WalkDeps(t, i + 1, depth, s)
             ELSE IF depth >= MaxDepth THEN Stopped(s)
             ELSE WalkDeps(t, i + 1, depth, WalkTarget(dep, depth + 1, s))

WalkLines(t, n, s) ==
    IF ~s.on \/ n > Len(Cmds(t)) THEN s
    ELSE IF s.sts = <<>> THEN Stopped(s)
    ELSE LET text == Strip(ExpandMacroUsages(Cmds(t)[n], s.mac))
             command == DropTolerant(DropSilent(text))
             status == Head(s.sts)
             s1 == [s EXCEPT !.lines = Append(@, <<t, n>>),
                             !.sts = Tail(@),
                             !.fs = IF status = 0 /\ ~justPrint
                                    THEN RunEffect(command, @) ELSE @]
         IN  IF status # 0 /\ HaltOnFail(DropSilent(text)) /\ stopOnError
             THEN Stopped(s1)
             ELSE WalkLines(t, n + 1, s1)

Walk ==
    WalkTarget(goal, 1,
        [fs |-> fs0, mac |-> [x \in {} |-> <<>>], lines |-> <<>>,
         sts |-> StatusesOf(out[Main]), on |-> TRUE])

\* C3: with maxJobs = 1 no thread object is ever made and nothing is
\* registered in pending; every prerequisite is built by a nested call of
\* the main thread; the recipe lines executed so far are, at every moment,
\* the lines of the depth-first post-order walk of the prerequisite lists,
\* which the rule database, the files at the start and the commands' exit
\* statuses determine (so two runs from the same database and files, whose
\* commands exit alike, execute the same sequence of lines).
C3_Sequential ==
    maxJobs = 1 =>
        /\ \A w \in Workers : thr[w] = Idle /\ out[w] = <<>>
        /\ DOMAIN pending = {}
        /\ currentJobs = 1
        /\ LinesOf(out[Main]) = Walk.lines

\* A sequential run that built a prerequisite's prerequisite, the
\* prerequisite and then the goal, two lines each.
C3_Witness ==
    /\ maxJobs = 1
    /\ satisfied = <<TRUE>>
    /\ LinesOf(out[Main]) = << <<"c", 1>>, <<"c", 2>>, <<"b", 1>>, <<"b", 2>>,
                              <<"a", 1>>, <<"a", 2>> >>

\* ------------------------------------------------------ claims: one target
\* The text of line n of t's recipe, expanded with t's own automatic
\* variables when t's file is missing and its prerequisites' paths are their
\* names.
OwnText(t, n) ==
    Strip(ExpandMacroUsages(Cmds(t)[n],
            SetAutomatic([x \in {} |-> <<>>], t, <<>>, Deps(t))))

\* The goal's file is missing; its only prerequisite exists and has no rule.
MissingGoalOverSource ==
    /\ goal \in DOMAIN targets
    /\ Len(Deps(goal)) = 1
    /\ Deps(goal)[1] \notin DOMAIN targets
    /\ Missing(goal, fs0)
    /\ ~Missing(Deps(goal)[1], fs0)

\* Every command that ran exited with status 0.
NoCommandFailed ==
    \A tid \in Threads : \A p \in DOMAIN out[tid] :
        out[tid][p].k = "run" => out[tid][p].status = 0

\* C6 as claimed, on the runs in which no command failed: in that case one
\* run executes every recipe line of the goal once, in file order, echoes each
\* line's expanded text just before running it, and returns True.
C6_AsClaimed ==
    (MissingGoalOverSource /\ Finished /\ NoCommandFailed) =>
        LET log == out[Main]
        IN  /\ LinesOf(log) = [n \in 1..Len(Cmds(goal)) |-> <<goal, n>>]
            /\ \A p \in DOMAIN log :
                  log[p].k = "run" =>
                      /\ p > 1
                      /\ log[p - 1] = [k |-> "echo", t |-> goal, n |-> log[p].n,
                                       text |-> OwnText(goal, log[p].n)]
            /\ satisfied = <<TRUE>>

\* C6: in that case one run executes (with justPrint: prints) the recipe
\* lines of the goal once each, in file order, each as its expanded text
\* without the markers; a line that does not begin with "@" is echoed with
\* its expanded text just before, unless silent mode is on, and no other
\* line is echoed; no worker is made.  The run returns True after the last
\* line, unless stopOnError is on and a line without the tolerant marker
\* failed: that line is the last one executed, the error is reported, and
\* runMakefile does not return.
C6_BuildsGoal ==
    MissingGoalOverSource =>
        LET log == out[Main]
            done == Len(LinesOf(log))
        IN  /\ done <= Len(Cmds(goal))
            /\ LinesOf(log) = [n \in 1..done |-> <<goal, n>>]
            /\ \A w \in Workers : thr[w] = Idle
            /\ \A p \in DOMAIN log :
                  /\ IsLine(log[p]) =>
                        LET text == OwnText(goal, log[p].n)
                            echoed == p > 1 /\ log[p - 1].k = "echo"
                        IN  /\ log[p].text = DropTolerant(DropSilent(text))
                            /\ echoed <=> (~silent /\ ~StartsWith(text, "@"))
                            /\ echoed => log[p - 1] =
                                  [k |-> "echo", t |-> goal, n |-> log[p].n,
                                   text |-> text]
                  /\ log[p].k = "error" =>
                        /\ log[p].what = "command"
                        /\ log[p - 1].k = "run"
                        /\ log[p - 1].status # 0
                        /\ HaltOnFail(DropSilent(OwnText(goal, log[p - 1].n)))
            /\ thr[Main].st = "done" =>
                  satisfied = <<TRUE>> /\ done = Len(Cmds(goal))
            /\ thr[Main].st = "dead" =>
                  /\ stopOnError
                  /\ satisfied = <<>>
                  /\ log[Len(log)].k = "error"

\* A run of that kind that echoed and ran two lines and returned True.
C6_Witness ==
    /\ MissingGoalOverSource
    /\ ~silent /\ ~justPrint
    /\ satisfied = <<TRUE>>
    /\ Len(LinesOf(out[Main])) = 2
    /\ Len(out[Main]) = 4

\* The goal exists and is not phony; every prerequisite exists, is not
\* phony, is not newer and is not stale.
GoalUpToDate ==
    /\ Acyclic(targets)
    /\ ~Missing(goal, fs0)
    /\ ~DeclaredPhony(goal, targets)
    /\ \A p \in Prereqs(goal, targets) :
          /\ ~Missing(p, fs0)
          /\ ~DeclaredPhony(p, targets)
          /\ fs0[p] <= fs0[goal]
          /\ ~Stale(p, targets, fs0)

\* C7: when the goal is up to date in that sense, no recipe line of any
\* target is executed, echoed or printed, no file changes and no thread is
\* made; the run returns False, having printed "Nothing to be done" for the
\* goal, and nothing else, unless silent mode is on, when it prints nothing.
C7_UpToDate ==
    GoalUpToDate =>
        /\ fs = fs0
        /\ \A w \in Workers : thr[w] = Idle /\ out[w] = <<>>
        /\ thr[Main].st # "dead"
        /\ ~Finished => out[Main] = <<>>
        /\ Finished =>
              /\ satisfied = <<FALSE>>
              /\ out[Main] = IF silent THEN <<>>
                             ELSE <<[k |-> "nothing", t |-> goal]>>

\* An up-to-date goal with a rule and a prerequisite, reported as such.
C7_Witness ==
    /\ GoalUpToDate
    /\ Prereqs(goal, targets) # {}
    /\ satisfied = <<FALSE>>
    /\ out[Main] = <<[k |-> "nothing", t |-> goal]>>

\* ------------------------------------------------ claims: errors and text
\* Thread tid is about to resolve x: as the target of a call that begins, or
\* as the next prerequisite of the call's loop.
Resolving(tid, x) ==
    \/ At(tid, "enter") /\ Top(tid).t = x
    \/ /\ At(tid, "loop")
       /\ Top(tid).i <= Len(Deps(Top(tid).t))
       /\ Deps(Top(tid).t)[Top(tid).i] = x

\* What a step added to the output of tid.
NewEvents(tid) == SubSeq(out'[tid], Len(out[tid]) + 1, Len(out'[tid]))

\* The step treats the resolved name as up to date: a call that began for it
\* returns False; a loop goes on to the next prerequisite, with no thread,
\* no nested call and no entry among the prerequisites judged stale.
TreatedUpToDate(tid) ==
    LET st == thr[tid].stack
    IN  IF At(tid, "enter")
        THEN /\ Len(thr'[tid].stack) = Len(st) - 1
             /\ thr'[tid].st = IF Len(st) = 1 THEN "done" ELSE "run"
             /\ (tid = Main /\ Len(st) = 1) => satisfied' = <<FALSE>>
        ELSE thr'[tid].stack = [st EXCEPT ![Len(st)].i = @ + 1]

\* C8: when a thread resolves a name that has no rule (and for which no rule
\* can be synthesized), as the goal or as a prerequisite the build has
\* reached: if the file is missing, "No rule to make" for that name goes to
\* the error sink, which ends the thread when stopOnError is on and else
\* lets the name pass as up to date; if the file exists, no error is
\* reported and the name is treated as up to date.
C8_NoRule ==
    [][\A tid \in Threads : \A x \in Names \ DOMAIN targets :
          (Resolving(tid, x) /\ thr'[tid] # thr[tid]) =>
              IF Missing(x, fs)
              THEN /\ NewEvents(tid) # <<>>
                   /\ NewEvents(tid)[1] =
                         [k |-> "error", what |-> "norule", text |-> <<x>>,
                          shown |-> ~silent \/ stopOnError]
                   /\ IF stopOnError THEN thr'[tid].st = "dead"
                      ELSE TreatedUpToDate(tid)
              ELSE /\ \A e \in Range(NewEvents(tid)) : e.k # "error"
                   /\ TreatedUpToDate(tid)]_vars

\* "No rule to make" was reported for a prerequisite that the build reached,
\* and the run went on.
C8_Witness ==
    /\ ~stopOnError
    /\ \E tid \in Threads : \E p \in DOMAIN out[tid] :
          /\ out[tid][p].k = "error"
          /\ out[tid][p].what = "norule"
          /\ out[tid][p].text # <<goal>>
          /\ p < Len(out[tid])

\* The table that holds the automatic variables of the frame's own target:
\* its path (or name), its prerequisites' paths and the first of them; "<"
\* of a target without prerequisites is left as the shared table has it.
OwnTable(f) ==
    [x \in {"@", "^", "<"} |->
        IF x = "@" THEN (IF f.targetPath # <<>> THEN f.targetPath ELSE <<f.t>>)
        ELSE IF x = "^" THEN f.depPaths
        ELSE IF Len(f.depPaths) >= 1 THEN <<f.depPaths[1]>>
        ELSE IF "<" \in DOMAIN macros THEN macros["<"]
        ELSE <<>>]

\* C9 as claimed: with maxJobs above 1, every recipe line of a target is
\* expanded with the target's own values of @, ^ and <.
C9_OwnAutomatic ==
    [][\A tid \in Threads :
          (maxJobs > 1 /\ At(tid, "cmd") /\ thr'[tid] # thr[tid]) =>
              LET f == Top(tid)
              IN  thr'[tid].stack[Len(thr[tid].stack)].command =
                      Strip(ExpandMacroUsages(Cmds(f.t)[f.k], OwnTable(f)))]_vars

\* The markers of a recipe line: silent when the line begins with "@",
\* tolerant when it begins with "-", after a leading "@" if there is one.
SilentMarked(line) == StartsWith(Strip(line), "@")

TolerantMarked(line) ==
    \/ StartsWith(Strip(line), "-")
    \/ SilentMarked(line) /\ StartsWith(Tail(Strip(line)), "-")

\* The thread whose output is log is about to execute line n of t.
AboutToRun(tid, t, n) ==
    /\ thr[tid].st = "run"
    /\ thr[tid].stack # <<>>
    /\ Top(tid).t = t
    /\ Top(tid).k = n
    /\ Top(tid).pc \in {"cmd", "run"}

\* C10: a command that exits with a non-zero status on a line with the
\* tolerant marker is followed by no error, and by the target's next line
\* if it has one; on a line without the marker it is followed at once by the
\* command-failure error naming the command, handed to the error sink (which
\* ends the thread when stopOnError is on).  A line that begins with "@" is
\* not echoed; any other line is echoed just before it runs unless silent
\* mode is on, when nothing is echoed.
C10_Markers ==
    \A tid \in Threads : \A p \in DOMAIN out[tid] :
        LET log == out[tid]
            e == log[p]
        IN  /\ (e.k = "run" /\ e.status # 0) =>
                  LET line == Cmds(e.t)[e.n]
                  IN  IF TolerantMarked(line)
                      THEN /\ p < Len(log) => log[p + 1].k # "error"
                           /\ e.n < Len(Cmds(e.t)) =>
                                 IF p < Len(log)
                                 THEN /\ log[p + 1].k \in {"echo", "run"}
                                      /\ log[p + 1].t = e.t
                                      /\ log[p + 1].n = e.n + 1
                                 ELSE AboutToRun(tid, e.t, e.n + 1)
                      ELSE /\ p < Len(log)
                           /\ log[p + 1] =
                                 [k |-> "error", what |-> "command",
                                  text |-> e.text,
                                  shown |-> ~silent \/ stopOnError]
                           /\ stopOnError =>
                                 p + 1 = Len(log) /\ thr[tid].st = "dead"
            /\ IsLine(e) =>
                  LET echoed == /\ p > 1
                                /\ log[p - 1].k = "echo"
                                /\ log[p - 1].t = e.t
                                /\ log[p - 1].n = e.n
                  IN  echoed <=> (~SilentMarked(Cmds(e.t)[e.n]) /\ ~silent)
            /\ e.k = "echo" =>
                  /\ p < Len(log) => IsLine(log[p + 1])
                  /\ p = Len(log) => AboutToRun(tid, e.t, e.n)

\* A command failed on a line marked "@-": it was not echoed, no error
\* followed, and the next line of the target was echoed and run.
C10_Witness ==
    \E tid \in Threads : \E p \in DOMAIN out[tid] :
        LET log == out[tid]
        IN  /\ log[p].k = "run"
            /\ log[p].status # 0
            /\ SilentMarked(Cmds(log[p].t)[log[p].n])
            /\ TolerantMarked(Cmds(log[p].t)[log[p].n])
            /\ p + 2 <= Len(log)
            /\ log[p + 1].k = "echo"
            /\ log[p + 2].k = "run"
            /\ log[p + 2].n = log[p].n + 1

\* --------------------------------------------------- claims on macro files
\* A finished call of expandAndDefineMacros on a file of definitions.
DefinitionsRead ==
    /\ answer # <<>>
    /\ call.fn = "expandAndDefineMacros"
    /\ call.block = <<>>
    /\ answer[1].stop = ""

\* The number of the last line of the file that assigns to the name, 0 when
\* there is none.
LastDef(contents, name) ==
    LET S == {i \in DOMAIN contents : contents[i][1] = name}
    IN  IF S = {} THEN 0 ELSE CHOOSE i \in S : \A j \in S : j <= i

\* Y=$(X) stands as the definition of Y (only ?= lines on Y follow it) and
\* comes before the last definition of X.
DeferredBeforeLastX(contents) ==
    \E i \in DOMAIN contents :
        /\ contents[i] = <<"Y", "=", "$(X)">>
        /\ i < LastDef(contents, "X")
        /\ \A j \in DOMAIN contents :
              j > i /\ contents[j][1] = "Y" => contents[j][2] = "?="

\* What a reference to the name gives once the file has been read.
Reference(ref) ==
    ExpandUsages(<<ref>>, answer[1].macros, call.default, stopOnError,
                 MaxExpand)

\* C11: when Y=$(X) comes before the last definition of X, a reference to
\* Y after the file gives what a reference to X gives then (the same text,
\* the same errors, the same failure), and gives a when that last
\* definition is X=a or X:=a.
C11_Deferred ==
    DefinitionsRead /\ DeferredBeforeLastX(call.contents) =>
        /\ Reference("$(Y)") = Reference("$(X)")
        /\ LET last == call.contents[LastDef(call.contents, "X")]
           IN  last \in {<<"X", "=", "a">>, <<"X", ":=", "a">>} =>
                   Reference("$(Y)").text = <<"a">>

\* Y=$(X), then X is defined, then appended to: Y gives both parts.
C11_Witness ==
    /\ DefinitionsRead
    /\ DeferredBeforeLastX(call.contents)
    /\ call.contents[LastDef(call.contents, "X")] = <<"X", "+=", "a">>
    /\ Reference("$(Y)").text = <<"a", " ", "a">>

\* The file without its last line, read from the same table.
Before ==
    ExpandAndDefineMacros(Front(call.contents), call.macros, call.default,
                          stopOnError)

\* The last line of the file is a ?= on a name that the lines before it,
\* or the table the file was read with, define.
ConditionalOnDefined ==
    /\ DefinitionsRead
    /\ Last(call.contents)[2] = "?="
    /\ Before.stop = ""
    /\ Last(call.contents)[1] \in DOMAIN Before.macros

\* C12: a ?= on a name that is in the table, however it got there, leaves
\* the whole table as it was and expands nothing.
C12_ConditionalNoOp ==
    ConditionalOnDefined =>
        /\ answer[1].macros = Before.macros
        /\ answer[1].errs = Before.errs

\* X?=a, then X?= with another value: X stays a.
C12_Witness ==
    /\ ConditionalOnDefined
    /\ Len(call.contents) = 2
    /\ call.contents[1] = <<"X", "?=", "a">>
    /\ call.contents[2] = <<"X", "?=", "$(Z)">>
    /\ call.macros = NoMacros
    /\ answer[1].macros["X"] = <<"a">>

\* The last line of the file is a += and the call came to its end.
Appended ==
    /\ DefinitionsRead
    /\ Last(call.contents)[2] = "+="
    /\ Before.stop = ""

\* The right-hand side of the last line as written, and expanded against
\* the table the lines before it leave.
WrittenValue == SubSeq(Last(call.contents), 3, Len(Last(call.contents)))

ExpandedValue ==
    ExpandUsages(WrittenValue, Before.macros, call.default, stopOnError,
                 MaxExpand).text

\* C13: += on a defined name stores the previous value, one blank when the
\* previous value and the right-hand side are both non-empty, and the
\* right-hand side expanded at once; on an undefined name it stores the
\* expanded right-hand side alone.  No other name changes.
C13_Append ==
    Appended =>
        LET name == Last(call.contents)[1]
            old == Before.macros
            new == answer[1].macros
        IN  /\ DOMAIN new = DOMAIN old \cup {name}
            /\ \A n \in DOMAIN old : n # name => new[n] = old[n]
            /\ new[name] =
                  IF name \notin DOMAIN old THEN ExpandedValue
                  ELSE old[name]
                       \o (IF old[name] # <<>> /\ WrittenValue # <<>>
                           THEN <<" ">> ELSE <<>>)
                       \o ExpandedValue

\* X=a then X+=a, read with an empty table: X is "a a".
C13_Witness ==
    /\ Appended
    /\ call.contents = << <<"X", "=", "a">>, <<"X", "+=", "a">> >>
    /\ call.macros = NoMacros
    /\ answer[1].macros["X"] = <<"a", " ", "a">>

\* A finished call of expandAndDefineMacros on a file with a conditional.
BlockRead ==
    /\ answer # <<>>
    /\ call.fn = "expandAndDefineMacros"
    /\ call.block # <<>>
    /\ answer[1].stop = ""

\* Whether a condition holds for a table.
Holds(cond, table) == (cond[1] = "ifdef") <=> (cond[2] \in DOMAIN table)

\* The branch of a chain that is to be taken with a table: the number of
\* the first condition that holds, the else branch when none holds, 0 when
\* none holds and there is no else.
Selected(block, table) ==
    LET n == Len(block.arms)
        S == {i \in 1..n : Holds(block.arms[i], table)}
    IN  IF S # {} THEN CHOOSE i \in S : \A j \in S : i <= j
        ELSE IF block.hasElse THEN n + 1 ELSE 0

\* Branch i left its line in the text; branch i made its definition.
Emitted(i) == LeafText(i) \in Range(answer[1].result)
Applied(i) == LeafName(i) \in DOMAIN answer[1].macros

\* C14: of the branches of an if / else-if chain closed by one endif,
\* exactly the one to be taken leaves its text and makes its definitions;
\* of the branches of a conditional nested in it, exactly the one to be
\* taken once the lines before it are read; nothing is reported and the
\* line after the endif is read as usual.
C14_OneLeaf ==
    BlockRead =>
        LET block == call.block[1]
            n == Len(block.arms)
            sel == Selected(block, call.macros)
            inside == block.nestAt # 0 /\ block.nestAt = sel
            table == Define(Define(call.macros, LeafName(block.nestAt),
                                   <<"a">>), "X", <<LeafName(block.nestAt)>>)
            first == inside /\ Holds(block.nest[1].cond, table)
            second == inside /\ ~first /\ block.nest[1].hasElse
        IN  /\ \A i \in 1..(n + 1) :
                  /\ Emitted(i) <=> i = sel
                  /\ Applied(i) <=> i = sel
            /\ Emitted(n + 2) <=> first
            /\ Applied(n + 2) <=> first
            /\ Emitted(n + 3) <=> second
            /\ Applied(n + 3) <=> second
            /\ <<"end", ":">> \in Range(answer[1].result)
            /\ answer[1].errs = <<>>

\* A chain of three conditions and an else in which the third is the first
\* to hold, with a nested conditional in its branch that takes its else.
C14_Witness ==
    /\ BlockRead
    /\ Len(call.block[1].arms) = 3
    /\ call.block[1].hasElse
    /\ Selected(call.block[1], call.macros) = 3
    /\ call.block[1].nestAt = 3
    /\ Emitted(3)
    /\ Emitted(6)

\* The lines of the branch that is to be taken, none when there is none.
SelectedLines ==
    LET sel == Selected(call.block[1], call.macros)
    IN  IF sel = 0 THEN <<>> ELSE Branch(call.block[1], sel)

\* C15: after a conditional block the table is the table before the block
\* updated by the lines of the branch to be taken, read in order, and by
\* nothing else: no definition of another branch adds or changes a name.
C15_OnlySelected ==
    BlockRead =>
        answer[1].macros =
            ExpandAndDefineMacros(SelectedLines, call.macros, call.default,
                                  stopOnError).macros

\* X is defined, the first branch would set X and is not taken, and no
\* other branch is: the table is as it was.
C15_Witness ==
    /\ BlockRead
    /\ call.macros # NoMacros
    /\ call.block[1].arms = << <<"ifndef", "X">>, <<"ifdef", "Z">> >>
    /\ ~call.block[1].hasElse
    /\ answer[1].macros = call.macros

\* ------------------------------------------------ claims on the functions
\* C16: the rule stored for a target without a rule is the first, in scan
\* order, of the candidates with the fewest prerequisites that are neither
\* phony nor found; without a candidate nothing is stored.
C16_FewestFirst ==
    answer # <<>> /\ call.fn = "generateRecipeFor" =>
        LET cands == PotentialNewRules(call.target, targets, 1)
            Bad(c) == Cardinality({j \in DOMAIN c.deps :
                                     /\ ~IsPhony(c.deps[j], targets)
                                     /\ ~Exists(c.deps[j], fs)})
        IN  IF cands = <<>>
            THEN answer = <<FALSE>> /\ call.target \notin DOMAIN targets
            ELSE /\ answer = <<TRUE>>
                 /\ \E i \in DOMAIN cands :
                       /\ targets[call.target] = cands[i]
                       /\ \A j \in DOMAIN cands :
                             /\ Bad(cands[i]) <= Bad(cands[j])
                             /\ j < i => Bad(cands[i]) < Bad(cands[j])

\* Two rules match: the one scanned first needs a.s, which is not there,
\* the one scanned second needs a.c, which is; the second is stored.
C16_Witness ==
    /\ answer = <<TRUE>>
    /\ call.fn = "generateRecipeFor"
    /\ DOMAIN targets = {"%.o: %.s", "%.o: %.c", "a.o"}
    /\ targets["%.o: %.s"].at = 1
    /\ fs["a.c"] = 1
    /\ fs["a.s"] = 0
    /\ targets["a.o"].deps = <<"a.c">>

\* C17: without a requested goal, the goal is the first name, in the order
\* of the file, that stands to the left of the colon of a rule that is no
\* pattern rule and does not begin with ".".
C17_DefaultGoal ==
    answer # <<>> /\ call.fn = "getTargetActions" =>
        LET Ordinary(i) ==
                IF IsPatternSubstRecipe(call.lines[i].line) THEN <<>>
                ELSE SelectSeq(call.lines[i].generates,
                               LAMBDA g : Head(Spell(g)) # ".")
            S == {i \in DOMAIN call.lines : Ordinary(i) # <<>>}
        IN  S # {} =>
                goal = Ordinary(CHOOSE i \in S : \A j \in S : i <= j)[1]

\* C18: a line that begins with a reference to a name that is not in the
\* table expands that reference to the configured default when there is
\* one, reporting nothing, and otherwise gives the name to the error sink,
\* which ends the run when errors stop it; the table stays as it was.
C18_Undefined ==
    /\ answer # <<>>
    /\ call.fn = "expandMacroUsages"
    /\ ParenName(call.line[1]) \notin DOMAIN call.macros \cup {""}
    /\ Tail(call.line) \in {<<>>, <<"a">>}
    => /\ macros = call.macros
       /\ IF call.default # <<>>
          THEN answer[1] = Expanded(call.default[1] \o Tail(call.line))
          ELSE /\ answer[1].errs = <<ParenName(call.line[1])>>
               /\ answer[1].stop = IF stopOnError THEN "exit" ELSE ""

\* $(Z) with Z undefined and no default configured: Z goes to the sink.
C18_Witness ==
    /\ answer # <<>>
    /\ call.fn = "expandMacroUsages"
    /\ call.line = <<"$(Z)">>
    /\ call.default = <<>>
    /\ ~stopOnError
    /\ answer[1].errs = <<"Z">>

\* C19: $(word n,text) gives the n-th word of the expanded text, counted
\* from 1, reports an error for the index 0, and gives the empty text for
\* an index beyond the last word.
C19_Word ==
    answer # <<>> /\ call.fn = "getWordOf" /\ ParseInt(call.index[1]) # <<>> =>
        LET n == ParseInt(call.index[1])[1]
            expanded == ExpandMacroUsages(call.text, macros)
            words == SelectSeq(expanded, LAMBDA tok : tok # " ")
        IN  IF n = 0 THEN answer[1].errs # <<>>
            ELSE /\ answer[1].errs = <<>>
                 /\ answer[1].text = IF n <= Len(words) THEN <<words[n]>>
                                      ELSE <<>>

\* C20: with a pattern P%S and a replacement R%T every word P+stem+S
\* becomes R+stem+T and every other word stays as it is, whatever P and S
\* are; with a pattern that holds no wildcard the words equal to the
\* pattern become the replacement and every other word stays as it is.
C20_PatSubst ==
    answer # <<>> /\ call.fn = "patsubst" =>
        LET pattern == call.replaceText
            with == call.replaceWith
            at == IF "%" \in Range(pattern) THEN IndexOf(pattern, "%") ELSE 0
            P == SubSeq(pattern, 1, at - 1)
            S == SubSeq(pattern, at + 1, Len(pattern))
            Fits(w) == /\ Len(P) + Len(S) <= Len(w)
                       /\ SubSeq(w, 1, Len(P)) = P
                       /\ SubSeq(w, Len(w) - Len(S) + 1, Len(w)) = S
            stem(w) == SubSeq(w, Len(P) + 1, Len(w) - Len(S))
            Expected(w) ==
                IF at = 0 THEN IF w = pattern THEN with ELSE w
                ELSE IF Fits(w) THEN Substitute(with, stem(w)) ELSE w
        IN  ("%" \in Range(pattern) <=> "%" \in Range(with)) =>
                answer[1] = SelectSeq([i \in DOMAIN call.words |->
                                          Expected(call.words[i])],
                                      LAMBDA w : w # <<>>)

\* ------------------------------------------- claims on the later functions
\* What the expansion of the argument of the called function gives.
ArgumentExpanded ==
    ExpandUsages(call.text, macros, call.default, stopOnError, MaxExpand)

C22_PrivateTable ==
    (answer # <<>> /\ call.fn \in {"makeCmdForeach", "makeCmdCall"}) =>
        /\ DOMAIN macros = DOMAIN call.macros
        /\ \A name \in DOMAIN macros : macros[name] = call.macros[name]

\* A foreach over two words whose variable X is defined in the table of the
\* caller has expanded its text with X bound to each word in turn.
C22_Witness ==
    /\ answer # <<>>
    /\ call.fn = "makeCmdForeach"
    /\ call.args = << <<"X">>, <<"a", " ", "b">>, <<"$(X)", "$(v)">> >>
    /\ "v" \notin DOMAIN call.macros
    /\ answer[1].text = <<"a", " ", "b">>
    /\ macros["X"] = <<"c">>

\* A call of F with two arguments, in a table where 1 is defined and 2 is
\* not, has expanded F with 1 and 2 bound to the arguments.
C22_WitnessCall ==
    /\ answer # <<>>
    /\ call.fn = "makeCmdCall"
    /\ call.args = << <<"F">>, <<"a">>, <<"$(X)">> >>
    /\ "1" \in DOMAIN call.macros
    /\ answer[1].text = <<"a", "c", "F", "c">>
    /\ "2" \notin DOMAIN macros

\* ---------------------------------------------- claims: scheduler, continued
\* The prerequisite a worker thread was created for: the target of the
\* frame its thread object was made with.
WorkerFor(w) == thr[w].stack[1].t

\* C23: the test that a prerequisite is not in flight and the registration
\* of its worker are one atomic step, so no two worker threads are ever
\* created for the same prerequisite name.
C23_OneWorkerPerName ==
    \A w1, w2 \in Workers :
        (thr[w1].stack # <<>> /\ thr[w2].stack # <<>>
            /\ WorkerFor(w1) = WorkerFor(w2)) => w1 = w2

\* A recipe line of d has exited non-zero and was handed to the error sink
\* (it carried no tolerant marker).
FailedLine(d) ==
    \E tid \in Threads : \E p \in DOMAIN out[tid] :
        /\ out[tid][p].k = "run"
        /\ out[tid][p].t = d
        /\ out[tid][p].status # 0
        /\ p < Len(out[tid])
        /\ out[tid][p + 1].k = "error"
        /\ out[tid][p + 1].what = "command"

\* The targets t depends on, at any depth.
DependsOn(t) == ReachIn(Prereqs(t, targets), targets, Cardinality(Names))

\* C24: with halt-on-first-error on, once a recipe line without the
\* tolerant marker has failed in the build of a target, no thread is about
\* to execute a recipe line of a target that depends on it.
C24_NoLineAfterFailure ==
    stopOnError =>
        \A tid \in Threads :
            At(tid, "run") => \A d \in DependsOn(Top(tid).t) : ~FailedLine(d)

\* The automatic variables as the target of frame f alone gives them: its
\* path, the paths of its prerequisites and the first of these; without
\* prerequisites there is no first.
AloneTable(f) ==
    [x \in {"@", "^"} \cup (IF Len(f.depPaths) >= 1 THEN {"<"} ELSE {}) |->
        IF x = "@" THEN (IF f.targetPath # <<>> THEN f.targetPath ELSE <<f.t>>)
        ELSE IF x = "^" THEN f.depPaths
        ELSE <<f.depPaths[1]>>]

\* C25: in a sequential build, whenever a recipe line of a target is
\* expanded, the entries @, ^ and < of the table are the ones the target
\* alone gives, and no entry holds a value computed for another target (a
\* target without prerequisites has no entry <).
C25_OwnValues ==
    \A tid \in Threads :
        (maxJobs = 1 /\ At(tid, "cmd")) =>
            /\ DOMAIN macros = DOMAIN AloneTable(Top(tid))
            /\ \A x \in DOMAIN macros : macros[x] = AloneTable(Top(tid))[x]

\* ------------------------------------------------ claims on text, continued
\* The line with every bare reference to an automatic variable written in
\* its parenthesized form.
Parenthesized(line) ==
    [i \in DOMAIN line |->
        CASE line[i] = "$@" -> "$(@)"
          [] line[i] = "$<" -> "$(<)"
          [] line[i] = "$^" -> "$(^)"
          [] OTHER -> line[i]]

\* C26: on a table that holds the automatic variables, a line with the bare
\* references $@, $< and $^ expands to what the line with $(@), $(<) and
\* $(^) in their places expands to, and $$ expands to one $.
C26_BareForms ==
    (answer # <<>> /\ call.fn = "expandMacroUsages"
        /\ "@" \in DOMAIN call.macros) =>
        /\ answer[1].text =
              ExpandUsages(Parenthesized(call.line), macros, call.default,
                           stopOnError, MaxExpand).text
        /\ call.line = <<"$$">> => answer[1].text = <<"$">>

\* ---------------------------------------------- claims on the rule database
\* The file defines x by exactly two rule lines, the first and the last of
\* its rule lines, each naming x alone.
TwoLinesForX ==
    /\ answer # <<>>
    /\ call.fn = "getTargetActions.result"
    /\ Len(call.heads) >= 2
    /\ \A i \in DOMAIN call.heads :
          "x" \in Range(call.heads[i].generates) <=> i \in {1, Len(call.heads)}
    /\ call.heads[1].generates = <<"x">>
    /\ Last(call.heads).generates = <<"x">>

\* C27: for a target defined by two rule lines, the entry has the
\* prerequisites of the earlier line followed by those of the later line,
\* and the recipe lines of the earlier line followed by those of the later
\* line.
C27_Merged ==
    TwoLinesForX =>
        /\ targets["x"].deps =
              call.heads[1].dependsOn \o Last(call.heads).dependsOn
        /\ targets["x"].cmds = call.recipes[1] \o Last(call.recipes)

\* ------------------------------------------------- claims on the resolver
\* C28: on every rule database and file state, cyclic or not,
\* prepareGenerateTarget returns an answer, with no more calls nested in
\* each other than there are names plus one; where it met a target that was
\* on the current path it logged a warning and answered "needs building"
\* exactly when the file of that target was missing, and it went on (only
\* an error given to the sink ends the walk); and when it has returned, the
\* visiting set is the set it was called with.
C28_Terminates ==
    /\ answer = <<>> =>
        PrepareGenerateTarget(goal, {}, targets, fs, stopOnError).depth >= 1
    /\ answer # <<>> =>
        LET r == answer[1]
        IN  /\ r.depth <= Cardinality(ResolveNames) + 1
            /\ Len(r.back) = Len(r.warn)
            /\ \A i \in DOMAIN r.warn : r.back[i] <=> Missing(r.warn[i], fs)
            /\ r.exit => r.err # <<>>
            /\ ~r.exit => r.visiting = {}

\* A walk over a cyclic database has met a target on its path, logged the
\* warning, gone on to another prerequisite and returned.
C28_Witness ==
    /\ answer # <<>>
    /\ ~Acyclic(targets)
    /\ answer[1].warn # <<>>
    /\ answer[1].depth = Cardinality(ResolveNames) + 1
    /\ ~answer[1].exit
    /\ answer[1].visiting = {}

\* ------------------------------------------- claims on nested conditionals
\* The states of the loop after each line of a file, in order.
RECURSIVE AfterEach(_, _, _, _)
AfterEach(lines, st, default, halt) ==
    IF lines = <<>> THEN <<>>
    ELSE LET next == DefineLines(<<Head(lines)>>, st, default, halt)
         IN  <<next>> \o AfterEach(Tail(lines), next, default, halt)

CollectorTrace ==
    AfterEach(call.contents, Reading(call.macros), call.default, stopOnError)

\* The collector after the first k lines of the file that is read.
CollectedAt(k) == CollectorTrace[k]

\* The else branch of a block as written: the conditions after the first,
\* each with its branch, an else line between two of them, and an empty
\* line where the final else stood.
RECURSIVE ElseArms(_, _)
ElseArms(block, i) ==
    IF i > Len(block.arms) THEN <<>>
    ELSE (IF i = 2 THEN <<>> ELSE << <<"else">> >>)
         \o <<block.arms[i]>> \o Branch(block, i) \o ElseArms(block, i + 1)

ElseText(block) ==
    ElseArms(block, 2)
    \o (IF block.hasElse
        THEN (IF Len(block.arms) > 1 THEN << <<"else">> >> ELSE <<>>)
             \o << <<>> >> \o Branch(block, Len(block.arms) + 1)
        ELSE <<>>)

\* The line of the first else of the block itself, 0 when it has none.
FirstElse(block) ==
    IF Len(block.arms) > 1 \/ block.hasElse
    THEN Len(Branch(block, 1)) + 2 ELSE 0

\* C29: a block that may hold a nested conditional stays open, puts out
\* nothing and reports nothing until its own endif, and is closed by it;
\* the else branch is begun by the first else of the block itself and by
\* no else of the nested conditional; and the two branches hold the lines
\* written in them, those of the nested conditional included, as written.
C29_NestedKept ==
    BlockRead =>
        LET block == call.block[1]
            close == Len(call.contents) - 1
            trace == CollectorTrace
            last == trace[close - 1].cond[1]
        IN  /\ \A k \in 1..(close - 1) :
                  LET st == trace[k]
                  IN  /\ st.cond # <<>>
                      /\ st.result = << <<>> >>
                      /\ st.errs = <<>>
                      /\ st.cond[1].hasElse <=>
                            (FirstElse(block) # 0 /\ k >= FirstElse(block))
            /\ trace[close].cond = <<>>
            /\ last.ifBranch = Branch(block, 1)
            /\ last.elseBranch = ElseText(block)

\* A block with an else whose if-branch holds a conditional with an else
\* of its own, and one whose else-if branch does: the nested else and
\* endif are lines of the branch.
C29_Witness ==
    /\ BlockRead
    /\ call.block[1].hasElse
    /\ call.block[1].nestAt = 1
    /\ call.block[1].nest # <<>>
    /\ call.block[1].nest[1].hasElse
    /\ LET last == CollectedAt(Len(call.contents) - 2).cond[1]
       IN  /\ <<"else">> \in Range(last.ifBranch)
           /\ <<"endif">> \in Range(last.ifBranch)
           /\ <<"else">> \notin Range(last.elseBranch)

C29_WitnessElse ==
    /\ BlockRead
    /\ Len(call.block[1].arms) = 2
    /\ call.block[1].nestAt = 2
    /\ call.block[1].nest # <<>>
    /\ call.block[1].nest[1].hasElse
    /\ LET last == CollectedAt(Len(call.contents) - 2).cond[1]
       IN  /\ <<"endif">> \in Range(last.elseBranch)
           /\ <<"endif">> \notin Range(last.ifBranch)

\* ------------------------------------------------ claims on stripComments
\* The state of the scan before character i of a line that is read to
\* its end.
RECURSIVE TrackTo(_, _)
TrackTo(line, k) ==
    IF k = 0 THEN Scanning ELSE Track(TrackTo(line, k - 1), line[k], FALSE)

ScanBefore(line, i) == TrackTo(line, i - 1)

\* Character i stands outside every quote and every open bracket (and
\* after no escaping backslash).
OutsideAll(line, i) ==
    LET s == ScanBefore(line, i)
    IN  /\ ~s.escaped
        /\ ~s.inSomeSingleLevel
        /\ \A b \in {"(", "{"} : s.multiLevelOpen[b] = 0

\* The first comment character that stands outside, one past the end of
\* the line when there is none.
CommentAt(line) ==
    LET S == {i \in DOMAIN line : line[i] = "#" /\ OutsideAll(line, i)}
    IN  IF S = {} THEN Len(line) + 1
        ELSE CHOOSE i \in S : \A j \in S : i <= j

\* A closing bracket of the text that is kept stands outside every quote
\* and has no open bracket of its kind before it.
Unmatched(line, text) ==
    \E i \in DOMAIN text :
        LET s == ScanBefore(line, i)
        IN  /\ line[i] \in {")", "}"}
            /\ ~s.escaped
            /\ ~s.inSomeSingleLevel
            /\ s.multiLevelOpen[MultiLevelClose(line[i])] = 0

\* C30: stripComments returns the line up to the first comment character
\* that stands outside every quote of either style and outside every open
\* bracket, the whole line when there is none, and reports an error
\* exactly when a closing bracket has no open bracket to match.
C30_CutOutside ==
    (answer # <<>> /\ call.fn = "stripComments") =>
        /\ answer[1].stop = "" =>
              answer[1].text = SubSeq(call.line, 1, CommentAt(call.line) - 1)
        /\ answer[1].errs # <<>> <=>
              Unmatched(call.line,
                        IF answer[1].stop = "" THEN answer[1].text
                        ELSE call.line)

\* -------------------------------------------------- claims on runMakefile
\* The lines of a text that begin with the recipe lead character, and the
\* other lines.
RecipeLines(text) ==
    SelectSeq(text, LAMBDA line : line # <<>> /\ line[1] = "\t")

OtherLines(text) ==
    SelectSeq(text, LAMBDA line : line = <<>> \/ line[1] # "\t")

\* The table the definitions of the file make when they are read in order
\* with no recipe line among them, and that table under the overrides.
ParsedTable ==
    ExpandAndDefineMacros(OtherLines(call.contents), call.defaultMacros,
                          << <<>> >>, stopOnError).macros

FinalTable == Overlay(ParsedTable, call.overrideMacros)

\* The n-th recipe line as it runs when it is expanded against the final
\* table with the automatic variables of a.
LateText(n) ==
    DropTolerant(DropSilent(Strip(
        ExpandMacroUsages(Tail(RecipeLines(call.contents)[n]),
                          SetAutomatic(FinalTable, "a", <<>>, <<>>)))))

\* C31: the table after each pass over the file is the table its other
\* lines make, whatever the recipe lines look like; the recipe lines come
\* out of both passes as written; and every command that runs is its
\* recipe line expanded against the table after the whole file, overlaid
\* with the overrides.
C31_RecipeLate ==
    call.fn = "runMakefile" =>
        /\ \A i \in DOMAIN answer :
              i <= 2 =>
                  /\ answer[i].macros = ParsedTable
                  /\ RecipeLines(answer[i].result) = RecipeLines(call.contents)
        /\ \A i \in DOMAIN out[Main] :
              out[Main][i].k = "print" =>
                  out[Main][i].text = LateText(out[Main][i].n)

\* X is e above the rule and l below it, the recipe refers to X and has a
\* line X = in: the command that runs says l.
C31_Witness ==
    /\ call.fn = "runMakefile"
    /\ call.contents = << <<"X", "=", "e">>, <<"a", ":", "c">>,
                          <<"\t", "echo", "$(X)">>, <<"\t", "X", "=", "in">>,
                          <<"X", ":=", "l">> >>
    /\ call.overrideMacros = NoMacros
    /\ satisfied = <<TRUE>>
    /\ \E i \in DOMAIN out[Main] :
          /\ out[Main][i].k = "print"
          /\ out[Main][i].text = <<"echo", "l">>
    /\ macros["X"] = <<"l">>

\* The same file run with the override X = o: the command says o.
C31_WitnessOverride ==
    /\ call.fn = "runMakefile"
    /\ call.overrideMacros # NoMacros
    /\ <<"X", ":=", "l">> \in Range(call.contents)
    /\ satisfied = <<TRUE>>
    /\ \E i \in DOMAIN out[Main] :
          /\ out[Main][i].k = "print"
          /\ out[Main][i].text = <<"echo", "o">>

\* ------------------------------------------- claims on generateRecipeFor
\* Two databases agree on every name but t.
SameBut(db1, db2, t) ==
    /\ DOMAIN db1 \ {t} = DOMAIN db2 \ {t}
    /\ \A k \in DOMAIN db1 \ {t} : db1[k] = db2[k]

\* The database a call left: the one the next call was given, or the
\* present one.
LeftBy(i) == IF i < Len(answer) THEN answer[i + 1].given ELSE targets

\* C32: a call for a target that has an entry returns True and leaves the
\* database as it is; a call that stores a rule leaves every other entry
\* as it is and the target with an entry; and the second of two calls for
\* one target changes nothing and returns what the first returned.
C32_Memoized ==
    call.fn = "generateRecipeFor, twice" =>
        /\ \A i \in DOMAIN answer :
              LET given == answer[i].given
                  left == LeftBy(i)
              IN  /\ call.target \in DOMAIN given =>
                        answer[i].val /\ left = given
                  /\ SameBut(given, left, call.target)
                  /\ answer[i].val <=> call.target \in DOMAIN left
        /\ Len(answer) = 2 =>
              /\ targets = answer[2].given
              /\ answer[2].val = answer[1].val

\* The first call stored a rule for a.o, the second one returned True on
\* the database with that rule.
C32_Witness ==
    /\ call.fn = "generateRecipeFor, twice"
    /\ Len(answer) = 2
    /\ "a.o" \notin DOMAIN answer[1].given
    /\ "a.o" \in DOMAIN answer[2].given
    /\ answer[2].val
    /\ targets["a.o"].deps = <<"a.c">>

\* The file has a rule for a.o of its own and a pattern rule that matches
\* a.o: the rule of the file stays.
C32_WitnessOwn ==
    /\ call.fn = "generateRecipeFor, twice"
    /\ Len(answer) = 2
    /\ "a.o" \in DOMAIN answer[1].given
    /\ "%.o: %.c" \in DOMAIN targets
    /\ targets["a.o"].cmds = << <<"mine">> >>

\* The pattern rules of the database whose wildcard name is the only name
\* to the left of the colon, and the pieces of that name around the wildcard.
Before33(k) ==
    LET pat == Spell(targets[k].generates[1])
    IN  SubSeq(pat, 1, IndexOf(pat, "%") - 1)

After33(k) ==
    LET pat == Spell(targets[k].generates[1])
    IN  SubSeq(pat, IndexOf(pat, "%") + 1, Len(pat))

\* The stem that was put into the prerequisite %.c of the stored rule.
StemOf(rule) == Front(Spell(rule.deps[1]))

\* C33: with one pattern rule B%A in the database, a rule is stored for
\* the target only when the target begins with B and ends with A, and the
\* stem put into the prerequisites is the rest of the target: the target
\* is B, the stem and A in a row.
C33_Stem ==
    (/\ call.fn = "generateRecipeFor, one call"
     /\ answer # <<>>
     /\ Cardinality(DOMAIN targets \ {"a.o"}) = 1
     /\ answer[1].raised = "") =>
        LET k == CHOOSE k \in DOMAIN targets : k # "a.o"
            t == Spell(call.target)
        IN  /\ answer[1].val <=>
                  (StartsWithAll(t, Before33(k)) /\ EndsWithAll(t, After33(k)))
            /\ answer[1].val =>
                  t = Before33(k) \o StemOf(targets["a.o"]) \o After33(k)

\* C34: a pattern-rule line that names the target itself to the left of
\* its colon gives the target a rule whose prerequisites are those of the
\* line with every wildcard turned into the glob wildcard, and the call
\* returns True.
C34_DirectHit ==
    (/\ call.fn = "generateRecipeFor, one call"
     /\ answer # <<>>
     /\ DirectHit(call.target, [k \in DOMAIN targets \ {call.target} |->
                                   targets[k]])) =>
        /\ answer[1].raised = ""
        /\ answer[1].val
        /\ call.target \in DOMAIN targets

\* C35: satisfyDependencies terminates: no thread's nest of calls grows
\* until the recursion limit ends it, whatever the rule database, the
\* files and the job budget are.
C35_Terminates ==
    \A tid \in Threads : \A i \in 1..Len(out[tid]) :
        out[tid][i] # [k |-> "raise", what |-> "RecursionError"]

\* The places in the log where line n of t's recipe was executed and
\* exited with 0.
RunsOf(t, n) ==
    UNION {{<<tid, p>> : p \in {q \in DOMAIN out[tid] :
                                  /\ out[tid][q].k = "run"
                                  /\ out[tid][q].t = t
                                  /\ out[tid][q].n = n
                                  /\ out[tid][q].status = 0}} :
           tid \in Threads}

\* The thread is about to execute a line of t's recipe.
Executing(tid, t) ==
    /\ thr[tid].st = "run"
    /\ thr[tid].stack # <<>>
    /\ Top(tid).pc = "run"
    /\ Top(tid).t = t

\* Every rule's recipe is the one line that creates the target's file, no
\* target is phony, and commands are executed.
CreatingRecipes ==
    /\ ~justPrint
    /\ PhonyKey \notin DOMAIN targets
    /\ \A x \in DOMAIN targets : targets[x].cmds = << <<"touch", "$(@)">> >>

\* C36: with recipes that create their target's file, no line of a
\* target's recipe is executed twice in one run, and no two threads are
\* executing the recipe of the same target at the same time.
C36_RunOnce ==
    CreatingRecipes =>
        /\ \A t \in DOMAIN targets : Cardinality(RunsOf(t, 1)) <= 1
        /\ \A t \in DOMAIN targets : \A t1, t2 \in Threads :
              (Executing(t1, t) /\ Executing(t2, t)) => t1 = t2

\* The workers a frame has counted (line 547) and not yet taken off the
\* count (line 568): the names in pendingJobs the joining loop has not
\* passed, and the one counted at line 547 whose thread object is not made
\* yet.
Owed(f) ==
    IF f.pc \in {"auto", "cmd", "run"} THEN 0
    ELSE IF f.pc \in {"join", "clear", "acquire2", "dec"}
    THEN Len(f.pendingJobs) - (f.j - 1)
    ELSE Len(f.pendingJobs) + (IF f.pc = "mkthread" THEN 1 ELSE 0)

RECURSIVE OwedBy(_)
OwedBy(stack) ==
    IF stack = <<>> THEN 0
    ELSE Owed(Head(stack)) + OwedBy(Tail(stack))

RECURSIVE OwedByAll(_)
OwedByAll(tids) ==
    IF tids = {} THEN 0
    ELSE LET tid == CHOOSE x \in tids : TRUE
         IN  OwedBy(thr[tid].stack) + OwedByAll(tids \ {tid})

\* C37: the job counter is 1 plus the workers that were counted and not yet
\* joined and released by the call that counted them (as long as no thread
\* was ended by an exception, whose calls are gone), it is never below 1,
\* and it is 1 when the outermost satisfyDependencies has returned.
C37_Counter ==
    /\ currentJobs >= 1
    /\ (\A tid \in Threads : thr[tid].st # "dead") =>
          currentJobs = 1 + OwedByAll({tid \in Threads : thr[tid].st = "run"})
    /\ satisfied # <<>> => currentJobs = 1

\* The i-th rule line of the file is the only one that names g.
OnlyLineFor(g, i) ==
    \A j \in DOMAIN call.heads :
        g \in Range(call.heads[j].generates) <=> j = i

\* C38: a target that is named by one rule line only, a line that names
\* several targets, has as its entry the prerequisites and the recipe of
\* that line: nothing of what is merged in for another target of the line
\* is in it.
C38_Independent ==
    (answer # <<>> /\ call.fn = "getTargetActions.result") =>
        \A i \in DOMAIN call.heads : \A g \in Range(call.heads[i].generates) :
            (Len(call.heads[i].generates) > 1 /\ OnlyLineFor(g, i)) =>
                /\ targets[g].deps = call.heads[i].dependsOn
                /\ targets[g].cmds = call.recipes[i]

\* The rule database getTargetActions makes of a text.
DatabaseOf(text) == TargetActions(LinesOfFile(text), [x \in {} |-> <<>>], <<>>)

\* C39: on a file without include lines the second pass of the definition
\* processor leaves the macro table as the first pass made it, and its
\* text gives the same rule database as the text of the first pass.
C39_SecondPassNoOp ==
    (call.fn = "runMakefile" /\ Len(answer) >= 2) =>
        /\ answer[2].macros = answer[1].macros
        /\ DatabaseOf(answer[2].result) = DatabaseOf(answer[1].result)

====
